---- MODULE Spec2Model ----
(***************************************************************************)
(* pgtoolkit: the postgresql.conf engine (pgtoolkit/conf.py).              *)
(*                                                                         *)
(* Text is modelled character by character: a Python str is a sequence of  *)
(* one-character strings, so that quoting, escaping, stripping and the     *)
(* line grammar are computed the way the code computes them.               *)
(***************************************************************************)
EXTENDS Integers, Sequences, FiniteSets, TLC

(***************************************************************************)
(* Bounds.                                                                 *)
(***************************************************************************)
\* longest raw token handed to parse_value by the value-coder specification
MaxRawLen == 3

(***************************************************************************)
(* Python str helpers.                                                     *)
(***************************************************************************)
Whitespace == {" ", "\t", "\n"}

Digits == {"0", "1", "2", "3", "4", "5", "6", "7", "8", "9"}

DigitChar(d) ==
    CASE d = 0 -> "0" [] d = 1 -> "1" [] d = 2 -> "2" [] d = 3 -> "3"
      [] d = 4 -> "4" [] d = 5 -> "5" [] d = 6 -> "6" [] d = 7 -> "7"
      [] d = 8 -> "8" [] d = 9 -> "9"

\* s[i:] with a 1-based i
Drop(s, i) == SubSeq(s, i, Len(s))

StartsWith(s, p) == Len(s) >= Len(p) /\ SubSeq(s, 1, Len(p)) = p

EndsWith(s, p) == Len(s) >= Len(p) /\ SubSeq(s, Len(s) - Len(p) + 1, Len(s)) = p

RECURSIVE Contains(_, _)
Contains(s, sub) ==
    IF Len(s) < Len(sub) THEN FALSE
    ELSE StartsWith(s, sub) \/ Contains(Tail(s), sub)

\* str.replace(old, new): non-overlapping occurrences, left to right
RECURSIVE Replace(_, _, _)
Replace(s, old, new) ==
    IF s = <<>> THEN <<>>
    ELSE IF StartsWith(s, old) THEN new \o Replace(Drop(s, Len(old) + 1), old, new)
    ELSE <<Head(s)>> \o Replace(Tail(s), old, new)

RECURSIVE LStripSet(_, _)
LStripSet(s, chars) ==
    IF s # <<>> /\ Head(s) \in chars THEN LStripSet(Tail(s), chars) ELSE s

RECURSIVE RStripSet(_, _)
RStripSet(s, chars) ==
    IF s # <<>> /\ s[Len(s)] \in chars THEN RStripSet(SubSeq(s, 1, Len(s) - 1), chars)
    ELSE s

\* str.lstrip() / str.strip() without argument
LStrip(s) == LStripSet(s, Whitespace)

Strip(s) == RStripSet(LStripSet(s, Whitespace), Whitespace)

\* number of leading characters of s that belong to chars
RECURSIVE SpanLen(_, _)
SpanLen(s, chars) ==
    IF s # <<>> /\ Head(s) \in chars THEN 1 + SpanLen(Tail(s), chars) ELSE 0

RECURSIVE Pow10(_)
Pow10(n) == IF n = 0 THEN 1 ELSE 10 * Pow10(n - 1)

\* value of a digit string in the given base
RECURSIVE DigitsToNat(_, _)
DigitsToNat(ds, base) ==
    LET DigitVal(c) ==
            CASE c = "0" -> 0 [] c = "1" -> 1 [] c = "2" -> 2 [] c = "3" -> 3
              [] c = "4" -> 4 [] c = "5" -> 5 [] c = "6" -> 6 [] c = "7" -> 7
              [] c = "8" -> 8 [] c = "9" -> 9
    IN  IF ds = <<>> THEN 0
        ELSE DigitsToNat(SubSeq(ds, 1, Len(ds) - 1), base) * base + DigitVal(ds[Len(ds)])

\* str(n) for a natural number n
RECURSIVE NatToStr(_)
NatToStr(n) ==
    IF n < 10 THEN <<DigitChar(n)>> ELSE NatToStr(n \div 10) \o <<DigitChar(n % 10)>>

RECURSIVE Zeros(_)
Zeros(n) == IF n = 0 THEN <<>> ELSE <<"0">> \o Zeros(n - 1)

AllIn(s, chars) == \A i \in 1..Len(s) : s[i] \in chars

(***************************************************************************)
(* Values: Union[str, bool, float, int, timedelta], tagged by kind.  A     *)
(* float is a decimal <<m, e>> standing for m / 10^e with no trailing zero *)
(* in the fraction; a timedelta is <<seconds, microseconds>> with the days  *)
(* folded into the seconds and microseconds < 10^6.                        *)
(* A raised ValueError(raw) is the value of kind "ValueError".             *)
(***************************************************************************)
StrV(s) == [k |-> "str", v |-> s]

BoolV(b) == [k |-> "bool", v |-> b]

IntV(n) == [k |-> "int", v |-> n]

TdV(sec, us) == [k |-> "td", v |-> <<sec, us>>]

\* "no value yet" in the variables of the specifications
NoV == [k |-> "none", v |-> 0]

Q == "'"

BS == "\\"

\* int(raw, base=8) succeeds: optional blanks, optional 0o/0O prefix, octal digits
IsOctal(raw) ==
    LET OctDigits == {"0", "1", "2", "3", "4", "5", "6", "7"}
    IN  LET t == Strip(raw)
            d == IF StartsWith(t, <<"0", "o">>) \/ StartsWith(t, <<"0", "O">>)
                 THEN Drop(t, 3) ELSE t
        IN  d # <<>> /\ AllIn(d, OctDigits)

\* int(raw) succeeds: optional blanks around decimal digits
IsInt(raw) == LET t == Strip(raw) IN t # <<>> /\ AllIn(t, Digits)

\* float(raw) succeeds: digits with one optional point, at least one digit
IsFloat(raw) ==
    LET t == Strip(raw)
        n == SpanLen(t, Digits)
        r == Drop(t, n + 1)
        f == IF r # <<>> /\ Head(r) = "." THEN Tail(r) ELSE r
    IN  /\ AllIn(f, Digits)
        /\ n + Len(f) >= 1

ToFloat(raw) ==
    LET FloatV(m, e) == [k |-> "float", v |-> <<m, e>>]
    IN  LET t == Strip(raw)
            n == SpanLen(t, Digits)
            r == Drop(t, n + 1)
            f == RStripSet(IF r # <<>> /\ Head(r) = "." THEN Tail(r) ELSE r, {"0"})
        IN  FloatV(DigitsToNat(SubSeq(t, 1, n) \o f, 10), Len(f))

\* timedelta(**{TIMEDELTA_ARGNAME[unit]: n})
Timedelta(n, u) ==
    CASE u = <<"m", "s">> -> TdV(n \div 1000, (n % 1000) * 1000)
      [] u = <<"s">> -> TdV(n, 0)
      [] u = <<"m", "i", "n">> -> TdV(60 * n, 0)
      [] u = <<"h">> -> TdV(3600 * n, 0)
      [] u = <<"d">> -> TdV(86400 * n, 0)

\* ^\s*(?P<number>\d+)\s*(?P<unit>...)\s*$ : the digits and the unit matched
NumberUnit(raw) ==
    LET t == Strip(raw)
        n == SpanLen(t, Digits)
    IN  [number |-> SubSeq(t, 1, n), unit |-> LStrip(Drop(t, n + 1))]

\* parse_value after the quote handling
ParseUnquoted(raw) ==
    LET MEMORY_UNITS == {<<"k", "B">>, <<"M", "B">>, <<"G", "B">>, <<"T", "B">>}
        TIMEDELTA_UNITS ==
            {<<"m", "s">>, <<"s">>, <<"m", "i", "n">>, <<"h">>, <<"d">>}
        memory_re(raw_) ==
            LET m == NumberUnit(raw_) IN m.number # <<>> /\ m.unit \in MEMORY_UNITS
        timedelta_re(raw_) ==
            LET m == NumberUnit(raw_) IN m.number # <<>> /\ m.unit \in TIMEDELTA_UNITS
    IN  IF StartsWith(raw, <<"0">>) /\ raw # <<"0">> /\ IsOctal(raw) THEN StrV(raw)
        ELSE IF memory_re(raw) THEN StrV(Strip(raw))
        ELSE IF timedelta_re(raw)
             THEN LET m == NumberUnit(raw)
                  IN  Timedelta(DigitsToNat(m.number, 10), m.unit)
        ELSE IF raw \in {<<"t", "r", "u", "e">>, <<"y", "e", "s">>, <<"o", "n">>}
             THEN BoolV(TRUE)
        ELSE IF raw \in {<<"f", "a", "l", "s", "e">>, <<"n", "o">>, <<"o", "f", "f">>}
             THEN BoolV(FALSE)
        ELSE IF IsInt(raw) THEN IntV(DigitsToNat(Strip(raw), 10))
        ELSE IF IsFloat(raw) THEN ToFloat(raw)
        ELSE StrV(raw)

parse_value(raw) ==
    LET ValueErrorV(raw_) == [k |-> "ValueError", v |-> raw_]
    IN  IF StartsWith(raw, <<Q>>)
        THEN IF ~EndsWith(raw, <<Q>>) THEN ValueErrorV(raw)
             ELSE ParseUnquoted(Replace(Replace(SubSeq(raw, 2, Len(raw) - 1), <<Q, Q>>, <<Q>>),
                                        <<BS, Q>>, <<Q>>))
        ELSE ParseUnquoted(raw)

\* str(x) of a float x = m / 10^e
FloatToStr(m, e) ==
    LET frac == NatToStr(m % Pow10(e))
    IN  NatToStr(m \div Pow10(e)) \o <<".">> \o
        (IF e = 0 THEN <<"0">> ELSE Zeros(e - Len(frac)) \o frac)

\* the value stored by Entry.__init__ and by the Entry.value setter
EntryValue(value) == IF value.k = "str" THEN parse_value(value.v) ELSE value

SerializeStr(s) ==
    IF StartsWith(s, <<Q>>) /\ EndsWith(s, <<Q>>) THEN s
    ELSE <<Q>> \o (IF ~Contains(s, <<Q, Q>>) /\ ~Contains(s, <<BS, Q>>)
                   THEN Replace(s, <<Q>>, <<Q, Q>>) ELSE s) \o <<Q>>

SerializeTimedelta(td) ==
    LET seconds == td[1]
        micro == td[2]
    IN  IF micro # 0
        THEN <<Q>> \o NatToStr(seconds * 1000 + micro \div 1000) \o <<" ", "m", "s">> \o <<Q>>
        ELSE IF seconds % 86400 = 0
             THEN <<Q>> \o NatToStr(seconds \div 86400) \o <<"d">> \o <<Q>>
        ELSE IF seconds % 3600 = 0
             THEN <<Q>> \o NatToStr(seconds \div 3600) \o <<"h">> \o <<Q>>
        ELSE IF seconds % 60 = 0
             THEN <<Q>> \o NatToStr(seconds \div 60) \o <<" ", "m", "i", "n">> \o <<Q>>
        ELSE <<Q>> \o NatToStr(seconds) \o <<"s">> \o <<Q>>

\* Entry.serialize of an entry holding value
serialize(value) ==
    CASE value.k = "bool" -> IF value.v THEN <<"o", "n">> ELSE <<"o", "f", "f">>
      [] value.k = "str" -> SerializeStr(value.v)
      [] value.k = "td" -> SerializeTimedelta(value.v)
      [] value.k = "int" -> NatToStr(value.v)
      [] value.k = "float" -> FloatToStr(value.v[1], value.v[2])

\* Python's == on two values
PyEq(a, b) ==
    LET Num(x) == x.k \in {"bool", "int", "float"}
        M(x) == CASE x.k = "bool" -> IF x.v THEN 1 ELSE 0
                  [] x.k = "int" -> x.v
                  [] x.k = "float" -> x.v[1]
        E(x) == IF x.k = "float" THEN x.v[2] ELSE 0
    IN  IF Num(a) /\ Num(b) THEN M(a) * Pow10(E(b)) = M(b) * Pow10(E(a))
        ELSE a.k = b.k /\ a.v = b.v

(***************************************************************************)
(* Entry and the line grammar of Configuration.parse.                      *)
(* Optional[str] is <<>> for None and <<s>> for the str s.                 *)
(***************************************************************************)
None == <<>>

Some(x) == <<x>>

NL == <<"\n">>

include == <<"i", "n", "c", "l", "u", "d", "e">>

include_dir == include \o <<"_", "d", "i", "r">>

include_if_exists == include \o <<"_", "i", "f", "_", "e", "x", "i", "s", "t", "s">>

\* IncludeType.__members__
IncludeType == {include_dir, include_if_exists, include}

\* number of characters of s before the first occurrence of c
RECURSIVE LenBefore(_, _)
LenBefore(s, c) == IF s = <<>> \/ Head(s) = c THEN 0 ELSE 1 + LenBefore(Tail(s), c)

\* Configuration._parameter_re.match(line):
\*   ^(?P<name>[a-z_.]+)(?: +(?!=)| *= *)(?P<value>.*?)[\s\t]*(?P<comment>#.*)?$
\* The name is the longest run of name characters.  The separator is tried as
\* blanks not followed by '=' first (giving one blank back when that makes the
\* lookahead succeed), then as '=' between optional blanks.  The value is the
\* shortest text after which only blanks and an optional '#...' remain.
parameter_re(line) ==
    LET NameChars ==
            {"a", "b", "c", "d", "e", "f", "g", "h", "i", "j", "k", "l", "m", "n", "o",
             "p", "q", "r", "s", "t", "u", "v", "w", "x", "y", "z", "_", "."}
    IN  LET n == SpanLen(line, NameChars)
            r == Drop(line, n + 1)
            k == SpanLen(r, {" "})
            afterk == Drop(r, k + 1)
            eq == afterk # <<>> /\ Head(afterk) = "="
            alt1 == k >= 1 /\ (~eq \/ k >= 2)
            v == IF alt1 THEN (IF eq THEN Drop(r, k) ELSE afterk)
                 ELSE IF eq THEN LStripSet(Tail(afterk), {" "})
                 ELSE <<>>
            p == LenBefore(v, "#")
        IN  [ok |-> n >= 1 /\ (alt1 \/ eq),
             name |-> SubSeq(line, 1, n),
             value |-> RStripSet(SubSeq(v, 1, p), Whitespace),
             comment |-> IF p < Len(v) THEN Some(Drop(v, p + 1)) ELSE None]

\* Entry(name, value, commented, comment, raw_line) once its value is stored
Entry(name, value, commented, comment, raw_line) ==
    [name |-> name, value |-> value, commented |-> commented,
     comment |-> comment, raw_line |-> raw_line]

\* Entry.__str__
EntryStr(e) ==
    LET line == e.name \o <<" ", "=", " ">> \o serialize(e.value)
        full == IF e.comment # None /\ e.comment[1] # <<>>
                THEN line \o <<" ", " ", "#", " ">> \o e.comment[1] ELSE line
    IN  IF e.commented THEN <<"#">> \o full ELSE full

(***************************************************************************)
(* Configuration.entries is an OrderedDict: a sequence of entries with     *)
(* distinct names, in insertion order.                                     *)
(***************************************************************************)
Keys(ents) == {ents[i].name : i \in 1..Len(ents)}

KeyIndex(ents, name) == CHOOSE i \in 1..Len(ents) : ents[i].name = name

Get(ents, name) == ents[KeyIndex(ents, name)]

\* d[name] = e
DictSet(ents, name, e) ==
    IF name \in Keys(ents) THEN [ents EXCEPT ![KeyIndex(ents, name)] = e]
    ELSE Append(ents, e)

\* del d[name]
DictDel(ents, name) ==
    LET i == KeyIndex(ents, name)
    IN  SubSeq(ents, 1, i - 1) \o SubSeq(ents, i + 1, Len(ents))

\* d.update(other)
RECURSIVE DictUpdate(_, _)
DictUpdate(ents, other) ==
    IF other = <<>> THEN ents
    ELSE DictUpdate(DictSet(ents, Head(other).name, Head(other)), Tail(other))

\* Configuration.as_dict: the values of the entries that are not commented
as_dict(ents) ==
    [n \in {ents[i].name : i \in {j \in 1..Len(ents) : ~ents[j].commented}} |->
        Get(ents, n).value]

(***************************************************************************)
(* One iteration of the loop of Configuration.parse on raw_line.  The      *)
(* result is the Configuration's lines and entries after the iteration and *)
(* what the iteration did: stored no entry ("none"), stored the entry of   *)
(* the line ("entry"), yielded an include directive ("yield"), or raised   *)
(* ("raise").                                                              *)
(***************************************************************************)
ParseOut(lns, ents, out) == [lines |-> lns, entries |-> ents, out |-> out]

OutNone == [k |-> "none"]

OutEntry == [k |-> "entry"]

OutYield(path, type) == [k |-> "yield", path |-> path, type |-> type]

OutRaise(type) == [k |-> "raise", type |-> type]

\* parse() without the test of lines 536-543: a commented line replaces
\* whatever entry its name has
ParseMatched_overwrite(lns, ents, raw_line, m, commented) ==
    LET value == parse_value(m.value)
        comment == IF m.comment = None THEN None
                   ELSE Some(LStrip(LStripSet(m.comment[1], {"#"})))
        stored == EntryValue(value)
    IN  IF value.k = "ValueError" THEN ParseOut(lns, ents, OutRaise("ValueError"))
        ELSE IF m.name \in IncludeType
        THEN IF commented THEN ParseOut(lns, ents, OutNone)
             ELSE IF value.k # "str" THEN ParseOut(lns, ents, OutRaise("AssertionError"))
             ELSE ParseOut(lns, ents, OutYield(value.v, m.name))
        ELSE IF stored.k = "ValueError" THEN ParseOut(lns, ents, OutRaise("ValueError"))
        ELSE ParseOut(lns,
                      DictSet(ents, m.name,
                              Entry(m.name, stored, commented, comment, raw_line)),
                      OutEntry)

\* lines 524-551: the line matched the grammar as m
ParseMatched(lns, ents, raw_line, m, commented) ==
    LET value == parse_value(m.value)
        comment == IF m.comment = None THEN None
                   ELSE Some(LStrip(LStripSet(m.comment[1], {"#"})))
        stored == EntryValue(value)
    IN  IF value.k = "ValueError" THEN ParseOut(lns, ents, OutRaise("ValueError"))
        ELSE IF m.name \in IncludeType
        THEN IF commented THEN ParseOut(lns, ents, OutNone)
             ELSE IF value.k # "str" THEN ParseOut(lns, ents, OutRaise("AssertionError"))
             ELSE ParseOut(lns, ents, OutYield(value.v, m.name))
        ELSE IF /\ commented
                /\ m.name \in Keys(ents)
                /\ ~Get(ents, m.name).commented
        THEN ParseOut(lns, ents, OutNone)
        ELSE IF stored.k = "ValueError" THEN ParseOut(lns, ents, OutRaise("ValueError"))
        ELSE ParseOut(lns,
                      DictSet(ents, m.name,
                              Entry(m.name, stored, commented, comment, raw_line)),
                      OutEntry)

\* lines 501-523
ParseLine(lns0, ents, raw_line) ==
    LET lns == Append(lns0, raw_line)
        line == Strip(raw_line)
        uncom == LStrip(LStripSet(line, {"#"}))
    IN  IF line = <<>> THEN ParseOut(lns, ents, OutNone)
        ELSE IF StartsWith(line, <<"#">>)
        THEN IF "=" \notin {line[i] : i \in 1..Len(line)} THEN ParseOut(lns, ents, OutNone)
             ELSE IF ~parameter_re(uncom).ok THEN ParseOut(lns, ents, OutNone)
             ELSE ParseMatched(lns, ents, raw_line, parameter_re(uncom), TRUE)
        ELSE IF ~parameter_re(line).ok THEN ParseOut(lns, ents, OutRaise("ValueError"))
        ELSE ParseMatched(lns, ents, raw_line, parameter_re(line), FALSE)

(***************************************************************************)
(* The mutation API of Configuration.  Each operator gives the lines and   *)
(* entries the call leaves behind and the exception it raised ("none" when *)
(* it returned).                                                           *)
(***************************************************************************)
Res(lns, ents, exc) == [lines |-> lns, entries |-> ents, exc |-> exc]

\* list.index(x) as a 1-based position, 0 when x is not in the list
RECURSIVE ListIndex(_, _)
ListIndex(lns, x) ==
    IF lns = <<>> THEN 0
    ELSE IF Head(lns) = x THEN 1
    ELSE LET i == ListIndex(Tail(lns), x) IN IF i = 0 THEN 0 ELSE i + 1

\* Configuration._add_entry
add_entry(lns, ents, entry) ==
    LET e == [entry EXCEPT !.raw_line = EntryStr(entry) \o NL]
    IN  IF entry.name \in Keys(ents) THEN Res(lns, ents, "AssertionError")
        ELSE Res(Append(lns, e.raw_line), Append(ents, e), "none")

\* Configuration._update_entry: the entry replaces the one stored under its
\* name, then the first line equal to the old entry's raw_line is replaced
update_entry(lns, ents, entry) ==
    LET old_entry == Get(ents, entry.name)
        e1 == [entry EXCEPT !.commented = IF old_entry.commented THEN FALSE ELSE @]
        e2 == [e1 EXCEPT !.raw_line = EntryStr(e1) \o NL]
        ents2 == DictSet(ents, entry.name, e2)
        lineno == ListIndex(lns, old_entry.raw_line)
    IN  IF lineno = 0 THEN Res(lns, ents2, "ValueError")
        ELSE Res([lns EXCEPT ![lineno] = e2.raw_line], ents2, "none")

\* Configuration.save: the text written, line after line
RECURSIVE save(_)
save(lns) == IF lns = <<>> THEN <<>> ELSE Head(lns) \o save(Tail(lns))

\* Configuration.edit, lines 682-687: add or update, in the proxy's order
RECURSIVE ReconcileUpdates(_, _)
ReconcileUpdates(res, items) ==
    LET \* Entry.__eq__: name, value, comment and commented flag; raw_line is ignored
        EntryEq(a, b) ==
            /\ a.name = b.name
            /\ PyEq(a.value, b.value)
            /\ a.comment = b.comment
            /\ a.commented = b.commented
    IN  IF res.exc # "none" \/ items = <<>> THEN res
        ELSE LET entry == Head(items)
                 next == IF entry.name \notin Keys(res.entries)
                         THEN add_entry(res.lines, res.entries, entry)
                         ELSE IF ~EntryEq(Get(res.entries, entry.name), entry)
                         THEN update_entry(res.lines, res.entries, entry)
                         ELSE res
             IN  ReconcileUpdates(next, Tail(items))

\* Configuration.edit, lines 689-693: discard the entries absent from the proxy
RECURSIVE ReconcileRemovals(_, _, _)
ReconcileRemovals(res, items, proxy) ==
    LET \* list.remove(x): the list without the first element equal to x
        ListRemove(lns, x) ==
            LET i == ListIndex(lns, x)
            IN  SubSeq(lns, 1, i - 1) \o SubSeq(lns, i + 1, Len(lns))
    IN  IF res.exc # "none" \/ items = <<>> THEN res
        ELSE LET entry == Head(items)
                 ents2 == DictDel(res.entries, entry.name)
                 next == IF entry.name \in Keys(proxy) THEN res
                         ELSE IF ListIndex(res.lines, entry.raw_line) = 0
                         THEN Res(res.lines, ents2, "ValueError")
                         ELSE Res(ListRemove(res.lines, entry.raw_line), ents2, "none")
             IN  ReconcileRemovals(next, Tail(items), proxy)

Reconcile(lns, ents, proxy) ==
    LET updated == ReconcileUpdates(Res(lns, ents, "none"), proxy)
    IN  ReconcileRemovals(updated, updated.entries, proxy)

\* Configuration.edit reconciling in a finally clause: the proxy is applied
\* even when the body raised
edit_exit_finally(lns, ents, proxy, raised) ==
    IF raised THEN [Reconcile(lns, ents, proxy) EXCEPT !.exc = "Exception"]
    ELSE Reconcile(lns, ents, proxy)

\* Configuration.edit on leaving the with block: an exception raised by the
\* body is re-raised and nothing is reconciled
edit_exit(lns, ents, proxy, raised) ==
    IF raised THEN Res(lns, ents, "Exception") ELSE Reconcile(lns, ents, proxy)

\* EntriesProxy.add: the proxy after the call and the exception raised
ProxyRes(proxy, exc) == [proxy |-> proxy, exc |-> exc]

proxy_add(proxy, name, value, commented, comment) ==
    LET stored == EntryValue(value)
        e == Entry(name, stored, commented, comment, <<>>)
    IN  IF name \in Keys(proxy) THEN ProxyRes(proxy, "ValueError")
        ELSE IF stored.k = "ValueError" THEN ProxyRes(proxy, "ValueError")
        ELSE ProxyRes(Append(proxy, [e EXCEPT !.raw_line = EntryStr(e) \o NL]), "none")

\* entries[name].value = value on the proxy
proxy_set_value(proxy, name, value) ==
    IF name \notin Keys(proxy) THEN ProxyRes(proxy, "KeyError")
    ELSE IF EntryValue(value).k = "ValueError" THEN ProxyRes(proxy, "ValueError")
    ELSE ProxyRes(DictSet(proxy, name, [Get(proxy, name) EXCEPT !.value = EntryValue(value)]),
                  "none")

\* entries[name].comment = comment on the proxy
proxy_set_comment(proxy, name, comment) ==
    IF name \notin Keys(proxy) THEN ProxyRes(proxy, "KeyError")
    ELSE ProxyRes(DictSet(proxy, name, [Get(proxy, name) EXCEPT !.comment = comment]), "none")

\* entries[name].commented = flag on the proxy
proxy_set_commented(proxy, name, flag) ==
    IF name \notin Keys(proxy) THEN ProxyRes(proxy, "KeyError")
    ELSE ProxyRes(DictSet(proxy, name, [Get(proxy, name) EXCEPT !.commented = flag]), "none")

\* del entries[name] on the proxy
proxy_del(proxy, name) ==
    IF name \notin Keys(proxy) THEN ProxyRes(proxy, "KeyError")
    ELSE ProxyRes(DictDel(proxy, name), "none")

(***************************************************************************)
(* Paths and the file system seen by parse_include.  A path is the         *)
(* sequence of its components below the root, kept as pathlib keeps it:    *)
(* '..' is not collapsed.  The file system maps resolved paths to          *)
(* directories and to files (their lines).                                 *)
(***************************************************************************)
\* longest path, in components, the operating system accepts (PATH_MAX)
MaxPathLen == 5

DotDot == <<".", ".">>

RECURSIVE SplitSlash(_)
SplitSlash(s) ==
    LET n == LenBefore(s, "/")
    IN  IF n = Len(s) THEN <<s>>
        ELSE <<SubSeq(s, 1, n)>> \o SplitSlash(Drop(s, n + 2))

\* pathlib.Path(value): empty and '.' components are dropped
PathOf(value) ==
    [abs |-> value # <<>> /\ Head(value) = "/",
     parts |-> SelectSeq(SplitSlash(value), LAMBDA c : c # <<>> /\ c # <<".">>)]

Parent(path) == IF path = <<>> THEN <<>> ELSE SubSeq(path, 1, Len(path) - 1)

\* what the operating system finds at path: '..' goes up, every component
\* walked through must be a directory
RECURSIVE Walk(_, _, _)
Walk(fsys, cur, path) ==
    IF path = <<>> THEN [ok |-> TRUE, node |-> cur]
    ELSE IF cur \notin fsys.dirs THEN [ok |-> FALSE, node |-> <<>>]
    ELSE LET nxt == IF Head(path) = DotDot THEN Parent(cur) ELSE Append(cur, Head(path))
         IN  IF nxt \in fsys.dirs \cup DOMAIN fsys.files
             THEN Walk(fsys, nxt, Tail(path))
             ELSE [ok |-> FALSE, node |-> <<>>]

Exists(fsys, path) == Walk(fsys, <<>>, path).ok

IsDir(fsys, path) == Exists(fsys, path) /\ Walk(fsys, <<>>, path).node \in fsys.dirs

\* the characters of file names and of .pgpass fields, in code point order;
\* "FF" stands for chr(0xFF)
CharOrder ==
    <<" ", "#", "*", ".", "0", "1", "2", "3", "4", "5", "6", "7", "8", "9", ":", BS, "_",
      "a", "b", "c", "d", "e", "f", "g", "h", "i", "j", "k", "l", "m",
      "n", "o", "p", "q", "r", "s", "t", "u", "v", "w", "x", "y", "z", "FF">>

RECURSIVE StrLess(_, _)
StrLess(a, b) ==
    IF b = <<>> THEN FALSE
    ELSE IF a = <<>> THEN TRUE
    ELSE IF Head(a) = Head(b) THEN StrLess(Tail(a), Tail(b))
    ELSE \E i, j \in 1..Len(CharOrder) :
             i < j /\ CharOrder[i] = Head(a) /\ CharOrder[j] = Head(b)

\* sorted(names)
RECURSIVE SortNames(_)
SortNames(names) ==
    IF names = {} THEN <<>>
    ELSE LET least == CHOOSE n \in names : \A o \in names \ {n} : StrLess(n, o)
         IN  <<least>> \o SortNames(names \ {least})

DotConf == <<".", "c", "o", "n", "f">>

\* sorted(path.glob("*.conf")) without the names starting with '.'
ConfFiles(fsys, path) ==
    LET node == Walk(fsys, <<>>, path).node
        names == {Head(Drop(q, Len(node) + 1)) :
                     q \in {r \in fsys.dirs \cup DOMAIN fsys.files :
                               Len(r) = Len(node) + 1 /\ SubSeq(r, 1, Len(node)) = node}}
        globbed == SortNames({n \in names : EndsWith(n, DotConf)})
        shown == SelectSeq(globbed, LAMBDA n : ~StartsWith(n, <<".">>))
    IN  [i \in 1..Len(shown) |-> Append(path, shown[i])]

(***************************************************************************)
(* parse_include.  The recursion is kept as a stack of frames: a "file"    *)
(* frame is a subconf being parsed (path, the lines still to read, its     *)
(* lines and entries), a "dir" frame is the loop of include_dir over the   *)
(* files still to include.  One call of parse_include gives the frame it   *)
(* opens, or nothing ("skip"), or the exception it raises.                 *)
(***************************************************************************)
Err(type, path, from) == [type |-> type, path |-> path, from |-> from]

NoErr == Err("none", <<>>, <<>>)

\* notfound called with its two paths exchanged
notfound_swapped(path, reference_path) == Err("FileNotFoundError", reference_path, path)

\* notfound(path, include_type, reference_path)
notfound(path, reference_path) == Err("FileNotFoundError", path, reference_path)

DirFrame(pending, from) ==
    [kind |-> "dir", path |-> <<>>, rest |-> <<>>, lines |-> <<>>, entries |-> <<>>,
     pending |-> pending, from |-> from]

NoFrame == DirFrame(<<>>, <<>>)

IncRes(k, frame, err, processed) ==
    [k |-> k, frame |-> frame, err |-> err, processed |-> processed]

\* lines 150-155: the path the directive designates
IncludePath(fsys, p, from_path) ==
    LET IsFile(fsys_, path) == Exists(fsys_, path) /\ Walk(fsys_, <<>>, path).node \in DOMAIN fsys_.files
    IN  IF p.abs THEN p.parts
        ELSE (IF IsFile(fsys, from_path) THEN Parent(from_path) ELSE from_path) \o p.parts

\* lines 176-194, up to the opening of the sub-configuration
include_file(fsys, processed, path, from_path) ==
    LET FileFrame(path_, rest) ==
            [kind |-> "file", path |-> path_, rest |-> rest, lines |-> <<>>, entries |-> <<>>,
             pending |-> <<>>, from |-> <<>>]
    IN  IF Len(path) > MaxPathLen THEN IncRes("raise", NoFrame, Err("OSError", path, <<>>), processed)
        ELSE IF ~Exists(fsys, path)
        THEN IncRes("raise", NoFrame, notfound(path, from_path), processed)
        ELSE IF path \in processed
        THEN IncRes("raise", NoFrame, Err("RuntimeError", path, <<>>), processed)
        ELSE IF IsDir(fsys, path)
        THEN IncRes("raise", NoFrame, Err("IsADirectoryError", path, <<>>), processed \cup {path})
        ELSE IncRes("push", FileFrame(path, fsys.files[Walk(fsys, <<>>, path).node]), NoErr,
                    processed \cup {path})

\* parse_include(conf, path, include_type, from_path, _processed=processed)
parse_include(fsys, processed, p, include_type, from_path) ==
    LET path == IncludePath(fsys, p, from_path)
    IN  IF include_type = include_dir
        THEN IF Len(path) > MaxPathLen
             THEN IncRes("raise", NoFrame, Err("OSError", path, <<>>), processed)
             ELSE IF ~Exists(fsys, path) \/ ~IsDir(fsys, path)
             THEN IncRes("raise", NoFrame, notfound(path, from_path), processed)
             ELSE IncRes("push", DirFrame(ConfFiles(fsys, path), from_path), NoErr, processed)
        ELSE IF include_type = include_if_exists
        THEN IF Len(path) > MaxPathLen
             THEN IncRes("raise", NoFrame, Err("OSError", path, <<>>), processed)
             ELSE IF Exists(fsys, path) THEN include_file(fsys, processed, path, from_path)
             ELSE IncRes("skip", NoFrame, NoErr, processed)
        ELSE include_file(fsys, processed, path, from_path)

(***************************************************************************)
(* pg_hba.conf (pgtoolkit/hba.py).  A line of HBA.lines is an HBAComment   *)
(* [k |-> "comment", text] or an HBARecord [k |-> "record", fields,        *)
(* comment]; fields is the record's dict of values in insertion order, a   *)
(* sequence of [name, value] with databases and users holding lists.       *)
(***************************************************************************)
\* the names of the attributes of an HBARecord
Attr ==
    [conntype |-> <<"c", "o", "n", "n", "t", "y", "p", "e">>,
     databases |-> <<"d", "a", "t", "a", "b", "a", "s", "e", "s">>,
     users |-> <<"u", "s", "e", "r", "s">>,
     address |-> <<"a", "d", "d", "r", "e", "s", "s">>,
     netmask |-> <<"n", "e", "t", "m", "a", "s", "k">>,
     method |-> <<"m", "e", "t", "h", "o", "d">>,
     database |-> <<"d", "a", "t", "a", "b", "a", "s", "e">>,
     user |-> <<"u", "s", "e", "r">>]

\* HBARecord.COMMON_FIELDS
COMMON_FIELDS ==
    <<Attr.conntype, Attr.databases, Attr.users, Attr.address, Attr.netmask, Attr.method>>

\* sep.join(words)
RECURSIVE Join(_, _)
Join(words, sep) ==
    IF words = <<>> THEN <<>>
    ELSE IF Len(words) = 1 THEN words[1]
    ELSE words[1] \o sep \o Join(Tail(words), sep)

\* HBARecord.parse(line): the record, or the exception raised
HBARecord_parse(raw_line) ==
    LET CONNECTION_TYPES ==
            {<<"l", "o", "c", "a", "l">>, <<"h", "o", "s", "t">>,
             <<"h", "o", "s", "t", "s", "s", "l">>,
             <<"h", "o", "s", "t", "n", "o", "s", "s", "l">>,
             <<"h", "o", "s", "t", "g", "s", "s", "e", "n", "c">>,
             <<"h", "o", "s", "t", "n", "o", "g", "s", "s", "e", "n", "c">>}
        DQ == "\""
        \* where the match of (?:"+.*?"+|\S)+ that begins at s[i] ends
        RECURSIVE TokenEnd(_, _)
        TokenEnd(s, i) ==
            IF i > Len(s) THEN i
            ELSE IF s[i] = DQ
            THEN LET k == SpanLen(Drop(s, i), {DQ})
                     rest == Drop(s, i + k)
                     n == SpanLen(rest, {rest[j] : j \in 1..Len(rest)} \ {DQ})
                 IN  IF n < Len(rest)
                     THEN TokenEnd(s, i + k + n + SpanLen(Drop(rest, n + 1), {DQ}))
                     ELSE TokenEnd(s, i + k)
            ELSE IF s[i] \in Whitespace THEN i
            ELSE TokenEnd(s, i + 1)
        \* re.findall(r'(?:"+.*?"+|\S)+', s)
        RECURSIVE findall(_)
        findall(s) ==
            IF s = <<>> THEN <<>>
            ELSE IF Head(s) \in Whitespace THEN findall(Tail(s))
            ELSE <<SubSeq(s, 1, TokenEnd(s, 1) - 1)>> \o findall(Drop(s, TokenEnd(s, 1)))
        \* s.split(c)
        RECURSIVE split(_, _)
        split(s, c) ==
            IF c \notin {s[j] : j \in 1..Len(s)} THEN <<s>>
            ELSE <<SubSeq(s, 1, LenBefore(s, c))>> \o split(Drop(s, LenBefore(s, c) + 2), c)
        Raise(type) == [exc |-> type, record |-> <<>>]
        \* HBARecord.__init__: dict(values), database and user renamed
        single(d, one, many) ==
            IF one \in Keys(d)
            THEN DictSet(DictDel(d, one), many, [name |-> many, value |-> <<Get(d, one).value>>])
            ELSE d
        init(options, comment) ==
            [exc |-> "none",
             record |-> [k |-> "record",
                         fields |-> single(single(DictUpdate(<<>>, options),
                                                  Attr.database, Attr.databases),
                                           Attr.user, Attr.users),
                         comment |-> comment]]
        \* re.sub(r'^"|"$', "", v)
        unquoted(v) ==
            SubSeq(v, IF v # <<>> /\ Head(v) = DQ THEN 2 ELSE 1,
                   IF Len(v) > 1 /\ v[Len(v)] = DQ THEN Len(v) - 1 ELSE Len(v))
        \* zip(record_fields, values) and o.split("=", 1) for the other values
        options(values, record_fields, comment) ==
            IF \E i \in (Len(record_fields) + 1)..Len(values) :
                   LenBefore(values[i], "=") = Len(values[i])
            THEN Raise("IndexError")
            ELSE init([i \in 1..Len(values) |->
                          IF i <= Len(record_fields)
                          THEN [name |-> record_fields[i], value |-> values[i]]
                          ELSE [name |-> SubSeq(values[i], 1, LenBefore(values[i], "=")),
                                value |-> unquoted(Drop(values[i],
                                                        LenBefore(values[i], "=") + 2))]],
                      comment)
        \* "=" not in v, for a str (substring) and for a list (element)
        common_values(values) ==
            {i \in 1..Len(values) :
                IF i \in {2, 3}
                THEN \A j \in 1..Len(values[i]) : values[i][j] # <<"=">>
                ELSE \A j \in 1..Len(values[i]) : values[i][j] # "="}
        fields(values, comment) ==
            IF values[1] \notin CONNECTION_TYPES THEN Raise("ValueError")
            ELSE options(values,
                         SubSeq(COMMON_FIELDS, 1, 3)
                         \o (IF values[1] # <<"l", "o", "c", "a", "l">>
                             THEN <<Attr.address>> ELSE <<>>)
                         \o (IF Cardinality(common_values(values)) >= 6
                             THEN <<Attr.netmask>> ELSE <<>>)
                         \o <<Attr.method>>,
                         comment)
        \* values.index("#"): values[1] and values[2] are lists by now and never
        \* equal "#"; a "#" in front makes " ".join meet these lists
        index(tokens, hashes) ==
            IF hashes = {} THEN Len(tokens) + 1 ELSE CHOOSE i \in hashes : \A j \in hashes : i <= j
        comments(tokens, hash_pos) ==
            IF hash_pos = 1 THEN Raise("TypeError")
            ELSE fields([i \in 1..(hash_pos - 1) |->
                            IF i \in {2, 3} THEN split(tokens[i], ",") ELSE tokens[i]],
                        IF hash_pos > Len(tokens) THEN None
                        ELSE Some(Join(Drop(tokens, hash_pos + 1), <<" ">>)))
        values(tokens) ==
            IF Len(tokens) < 3 THEN Raise("IndexError")
            ELSE comments(tokens,
                          index(tokens, {i \in 1..Len(tokens) :
                                            i \notin {2, 3} /\ tokens[i] = <<"#">>}))
    IN  values(findall(Strip(raw_line)))

\* getattr(record, name): the value, or AttributeError for a field the record
\* does not have; database and user are the properties joining the lists
HBARecord_getattr(record, name) ==
    LET field == IF name = Attr.database THEN Attr.databases
                 ELSE IF name = Attr.user THEN Attr.users ELSE name
    IN  IF field \notin Keys(record.fields)
        THEN [exc |-> "AttributeError", value |-> <<>>]
        ELSE [exc |-> "none",
              value |-> IF name \in {Attr.database, Attr.user}
                        THEN Join(Get(record.fields, field).value, <<",">>)
                        ELSE Get(record.fields, field).value]

\* HBARecord.matches returning True as soon as one attribute is equal
HBARecord_matches_any(record, attrs) ==
    IF \E i \in 1..Len(attrs) :
           attrs[i].name \notin {COMMON_FIELDS[j] : j \in 1..6} \cup {Attr.database, Attr.user}
    THEN [exc |-> "AttributeError", value |-> FALSE]
    ELSE [exc |-> "none",
          value |-> \E i \in 1..Len(attrs) :
                        /\ HBARecord_getattr(record, attrs[i].name).exc = "none"
                        /\ attrs[i].name \notin {Attr.databases, Attr.users}
                        /\ HBARecord_getattr(record, attrs[i].name).value = attrs[i].value]

\* HBARecord.matches(**attrs), attrs a sequence of [name, value] with str
\* values: a list (databases, users) never equals a str
HBARecord_matches(record, attrs) ==
    IF \E i \in 1..Len(attrs) :
           attrs[i].name \notin {COMMON_FIELDS[j] : j \in 1..6} \cup {Attr.database, Attr.user}
    THEN [exc |-> "AttributeError", value |-> FALSE]
    ELSE [exc |-> "none",
          value |-> \A i \in 1..Len(attrs) :
                        /\ HBARecord_getattr(record, attrs[i].name).exc = "none"
                        /\ attrs[i].name \notin {Attr.databases, Attr.users}
                        /\ HBARecord_getattr(record, attrs[i].name).value = attrs[i].value]

\* HBA.parse(fo) on an HBA holding lns: the lines after the call and the
\* ParseError raised, with its line number
HBA_parse(lns, fo) ==
    LET record(i) ==
            IF LStrip(fo[i]) = <<>> \/ Head(LStrip(fo[i])) = "#"
            THEN [exc |-> "none", record |-> [k |-> "comment", text |-> Replace(fo[i], NL, <<>>)]]
            ELSE HBARecord_parse(fo[i])
        bad == {i \in 1..Len(fo) : record(i).exc # "none"}
        stop == IF bad = {} THEN Len(fo) + 1 ELSE CHOOSE i \in bad : \A j \in bad : i <= j
    IN  [exc |-> IF bad = {} THEN "none" ELSE "ParseError",
         lineno |-> IF bad = {} THEN 0 ELSE stop,
         lines |-> lns \o [i \in 1..(stop - 1) |-> record(i).record]]

\* HBA.remove(**attrs) on an HBA holding lns: the lines after the call, the
\* exception raised and the value returned
HBA_remove(lns, attrs) ==
    LET records == SelectSeq(lns, LAMBDA line : line.k = "record")
        removed(line) == line.k = "record" /\ HBARecord_matches(line, attrs).value
    IN  IF attrs = <<>> THEN [exc |-> "ValueError", lines |-> lns, ret |-> None]
        ELSE IF records # <<>> /\ HBARecord_matches(records[1], attrs).exc # "none"
        THEN [exc |-> "AttributeError", lines |-> lns, ret |-> None]
        ELSE [exc |-> "none", lines |-> SelectSeq(lns, LAMBDA line : ~removed(line)),
              ret |-> None]

\* HBA.merge(other) on an HBA holding self_lines, other holding other_lines
HBA_merge(self_lines, other_lines) ==
    LET \* the attributes of new_line compared by the merge
        kwargs(new_line) ==
            LET names == SelectSeq(<<Attr.conntype, Attr.database, Attr.user, Attr.address>>,
                                   LAMBDA a : HBARecord_getattr(new_line, a).exc = "none")
            IN  [i \in 1..Len(names) |->
                    [name |-> names[i], value |-> HBARecord_getattr(new_line, names[i]).value]]
        \* the inner loop from new_lines[j] on: the position of the record
        \* matching line (0 for none) and other_comments when the loop ends
        RECURSIVE scan(_, _, _, _)
        scan(line, new_lines, j, other_comments) ==
            IF j > Len(new_lines) THEN [found |-> 0, other_comments |-> other_comments]
            ELSE IF new_lines[j].k = "comment"
            THEN scan(line, new_lines, j + 1, Append(other_comments, new_lines[j]))
            ELSE IF HBARecord_matches(line, kwargs(new_lines[j])).value
            THEN [found |-> j, other_comments |-> other_comments]
            ELSE scan(line, new_lines, j + 1, <<>>)
        \* new_lines.remove(c) for c in other_comments
        RECURSIVE remove_each(_, _)
        remove_each(new_lines, other_comments) ==
            IF other_comments = <<>> THEN [exc |-> "none", lines |-> new_lines]
            ELSE IF ListIndex(new_lines, Head(other_comments)) = 0
            THEN [exc |-> "ValueError", lines |-> new_lines]
            ELSE remove_each(SubSeq(new_lines, 1, ListIndex(new_lines, Head(other_comments)) - 1)
                             \o Drop(new_lines, ListIndex(new_lines, Head(other_comments)) + 1),
                             Tail(other_comments))
        \* the outer loop from lines[i] on, lines being the copy of self.lines
        \* made on entry
        RECURSIVE loop(_, _, _, _)
        RECURSIVE replace(_, _, _, _)
        loop(lns, new_lines, other_comments, i) ==
            IF i > Len(self_lines) THEN [exc |-> "none", lines |-> lns \o new_lines, ret |-> None]
            ELSE IF self_lines[i].k = "comment" THEN loop(lns, new_lines, other_comments, i + 1)
            ELSE replace(lns, new_lines, scan(self_lines[i], new_lines, 1, other_comments), i)
        replace(lns, new_lines, found, i) ==
            IF found.found = 0 THEN loop(lns, new_lines, found.other_comments, i + 1)
            ELSE IF remove_each(new_lines, found.other_comments).exc # "none"
            THEN [exc |-> "ValueError",
                  lines |-> SubSeq(lns, 1, i - 1) \o found.other_comments
                            \o <<new_lines[found.found]>> \o Drop(lns, i + 1),
                  ret |-> None]
            ELSE loop(SubSeq(lns, 1, i - 1) \o found.other_comments
                      \o <<new_lines[found.found]>> \o Drop(lns, i + 1),
                      remove_each(SubSeq(new_lines, 1, found.found - 1)
                                  \o Drop(new_lines, found.found + 1), found.other_comments).lines,
                      found.other_comments, i + 1)
    IN  loop(self_lines, other_lines, <<>>, 1)

(***************************************************************************)
(* .pgpass (pgtoolkit/pgpass.py).  A line of PassFile.lines is a           *)
(* PassComment [k |-> "comment", text] or a PassEntry [k |-> "entry",      *)
(* hostname, port, database, username, password]; the port is an int or a  *)
(* str, the other fields are str.                                          *)
(***************************************************************************)
\* escapedsplit(s, delim), the generator read to its end
escapedsplit(s, delim) ==
    LET unescape(f) == Replace(Replace(f, <<BS, delim>>, <<delim>>), <<BS, BS>>, <<BS>>)
        \* the while loop at s[j], the field begun at s[i]
        RECURSIVE loop(_, _, _)
        loop(i, j, escaped) ==
            IF j > Len(s) THEN <<unescape(SubSeq(s, i, j - 1))>>
            ELSE IF s[j] = BS THEN loop(i, j + 1, ~escaped)
            ELSE IF s[j] = delim /\ ~escaped
            THEN <<unescape(SubSeq(s, i, j - 1))>> \o loop(j + 1, j + 1, FALSE)
            ELSE loop(i, j + 1, escaped)
    IN  loop(1, 1, FALSE)

\* PassEntry.parse(line): the entry, or ValueError
PassEntry_parse(line) ==
    LET init(fields) ==
            IF Len(fields) # 5 THEN [exc |-> "ValueError", entry |-> <<>>]
            ELSE IF fields[2] # <<"*">> /\ ~IsInt(fields[2])
            THEN [exc |-> "ValueError", entry |-> <<>>]
            ELSE [exc |-> "none",
                  entry |-> [k |-> "entry", hostname |-> fields[1],
                             port |-> IF fields[2] = <<"*">> THEN StrV(fields[2])
                                      ELSE IntV(DigitsToNat(Strip(fields[2]), 10)),
                             database |-> fields[3], username |-> fields[4],
                             password |-> fields[5]]]
    IN  init(escapedsplit(Strip(line), ":"))

\* PassEntry.as_tuple
as_tuple(entry) ==
    <<entry.hostname,
      IF entry.port.k = "int" THEN NatToStr(entry.port.v) ELSE entry.port.v,
      entry.database, entry.username, entry.password>>

\* PassEntry.__str__
PassEntry_str(entry) ==
    Join([i \in 1..5 |-> Replace(Replace(as_tuple(entry)[i], <<BS>>, <<BS, BS>>),
                                 <<":">>, <<BS, ":">>)],
         <<":">>)

\* PassComment.entry: the entry the comment holds, or ValueError
PassComment_entry(comment) == PassEntry_parse(Strip(LStripSet(comment.text, {"#"})))

\* PassEntry.__eq__ comparing the whole of as_tuple(), password included
PassEntry_eq_password(a, b) ==
    LET eq(x, y) == x.exc = "none" /\ y.exc = "none" /\ as_tuple(x.entry) = as_tuple(y.entry)
        of(x) == IF x.k = "entry" THEN [exc |-> "none", entry |-> x] ELSE PassComment_entry(x)
    IN  IF a.k = "comment" /\ b.k = "comment" THEN a.text = b.text ELSE eq(of(a), of(b))

\* a == b for two lines of a PassFile
PassEntry_eq(a, b) ==
    LET eq(x, y) == x.exc = "none" /\ y.exc = "none"
                    /\ SubSeq(as_tuple(x.entry), 1, 4) = SubSeq(as_tuple(y.entry), 1, 4)
        of(x) == IF x.k = "entry" THEN [exc |-> "none", entry |-> x] ELSE PassComment_entry(x)
    IN  IF a.k = "comment" /\ b.k = "comment" THEN a.text = b.text ELSE eq(of(a), of(b))

\* PassEntry.sort_key; chr(0xFF) is written "FF"
sort_key(entry) ==
    <<Cardinality({i \in 1..4 : as_tuple(entry)[i] = <<"*">>})>>
    \o [i \in 1..4 |-> IF as_tuple(entry)[i] = <<"*">> THEN <<"FF">> ELSE as_tuple(entry)[i]]

\* a < b for two lines of a PassFile
PassEntry_lt(a, b) ==
    LET \* x < y for two sort keys, compared as tuples
        differ(x, y) == {i \in 1..5 : x[i] # y[i]}
        less(x, y, i) == IF i = 1 THEN x[1] < y[1] ELSE StrLess(x[i], y[i])
        lt(x, y) ==
            /\ x.exc = "none"
            /\ y.exc = "none"
            /\ differ(sort_key(x.entry), sort_key(y.entry)) # {}
            /\ less(sort_key(x.entry), sort_key(y.entry),
                    CHOOSE i \in differ(sort_key(x.entry), sort_key(y.entry)) :
                        \A j \in differ(sort_key(x.entry), sort_key(y.entry)) : i <= j)
        of(x) == IF x.k = "entry" THEN [exc |-> "none", entry |-> x] ELSE PassComment_entry(x)
    IN  IF a.k = "comment" /\ b.k = "comment" THEN FALSE ELSE lt(of(a), of(b))

\* PassFile.parse(fo) on a PassFile holding lns: the lines after the call and
\* the ParseError raised, with its line number
PassFile_parse(lns, fo) ==
    LET entry(i) ==
            IF LStrip(fo[i]) = <<>> \/ Head(LStrip(fo[i])) = "#"
            THEN [exc |-> "none", entry |-> [k |-> "comment", text |-> Replace(fo[i], NL, <<>>)]]
            ELSE PassEntry_parse(fo[i])
        bad == {i \in 1..Len(fo) : entry(i).exc # "none"}
        stop == IF bad = {} THEN Len(fo) + 1 ELSE CHOOSE i \in bad : \A j \in bad : i <= j
    IN  [exc |-> IF bad = {} THEN "none" ELSE "ParseError",
         lineno |-> IF bad = {} THEN 0 ELSE stop,
         lines |-> lns \o [i \in 1..(stop - 1) |-> entry(i).entry]]

\* PassFile.sort() writing each entry before the comments collected above it
PassFile_sort_comments_below(lns) ==
    LET \* the loop over self.lines: the (line, comments) pairs and the comments
        \* left after the last of them
        RECURSIVE collect(_, _, _)
        collect(i, entries_, comments) ==
            IF i > Len(lns) THEN [entries |-> entries_, comments |-> comments]
            ELSE IF lns[i].k = "comment" /\ PassComment_entry(lns[i]).exc # "none"
            THEN collect(i + 1, entries_, Append(comments, lns[i]))
            ELSE collect(i + 1, Append(entries_, <<lns[i], comments>>), <<>>)
        \* x < y for two lists of comments
        list_lt(x, y) ==
            /\ \A i \in 1..Len(x) : i <= Len(y) => x[i].text = y[i].text
            /\ Len(x) < Len(y)
        \* x < y for two (line, comments) pairs
        ISLT(x, y) == IF PassEntry_eq(x[1], y[1]) THEN list_lt(x[2], y[2])
                      ELSE PassEntry_lt(x[1], y[1])
        \* list.sort, count_run: the length of the run the list begins with
        RECURSIVE count_run(_, _, _)
        count_run(xs, n, descending) ==
            IF n = Len(xs) \/ ISLT(xs[n + 1], xs[n]) # descending THEN n
            ELSE count_run(xs, n + 1, descending)
        RECURSIVE reverse(_)
        reverse(xs) == IF xs = <<>> THEN <<>> ELSE Append(reverse(Tail(xs)), Head(xs))
        \* list.sort, binarysort: where pivot goes in the sorted xs[l + 1 .. r]
        RECURSIVE bisect(_, _, _, _)
        bisect(xs, pivot, l, r) ==
            IF l >= r THEN l
            ELSE IF ISLT(pivot, xs[l + ((r - l) \div 2) + 1])
            THEN bisect(xs, pivot, l, l + ((r - l) \div 2))
            ELSE bisect(xs, pivot, l + ((r - l) \div 2) + 1, r)
        insert(xs, start, at) ==
            SubSeq(xs, 1, at) \o <<xs[start]>> \o SubSeq(xs, at + 1, start - 1)
            \o Drop(xs, start + 1)
        RECURSIVE binarysort(_, _)
        binarysort(xs, start) ==
            IF start > Len(xs) THEN xs
            ELSE binarysort(insert(xs, start, bisect(xs, xs[start], 0, start - 1)), start + 1)
        run(xs, n, descending) ==
            binarysort((IF descending THEN reverse(SubSeq(xs, 1, n)) ELSE SubSeq(xs, 1, n))
                       \o Drop(xs, n + 1), n + 1)
        sort(xs) ==
            IF Len(xs) < 2 THEN xs
            ELSE run(xs, count_run(xs, 2, ISLT(xs[2], xs[1])), ISLT(xs[2], xs[1]))
        RECURSIVE extend(_)
        extend(xs) == IF xs = <<>> THEN <<>> ELSE <<Head(xs)[1]>> \o Head(xs)[2] \o extend(Tail(xs))
        sorted(c) == IF c.entries = <<>> THEN c.comments ELSE extend(sort(c.entries))
    IN  sorted(collect(1, <<>>, <<>>))

\* PassFile.sort() on a PassFile holding lns
PassFile_sort(lns) ==
    LET \* the loop over self.lines: the (line, comments) pairs and the comments
        \* left after the last of them
        RECURSIVE collect(_, _, _)
        collect(i, entries_, comments) ==
            IF i > Len(lns) THEN [entries |-> entries_, comments |-> comments]
            ELSE IF lns[i].k = "comment" /\ PassComment_entry(lns[i]).exc # "none"
            THEN collect(i + 1, entries_, Append(comments, lns[i]))
            ELSE collect(i + 1, Append(entries_, <<lns[i], comments>>), <<>>)
        \* x < y for two lists of comments
        list_lt(x, y) ==
            /\ \A i \in 1..Len(x) : i <= Len(y) => x[i].text = y[i].text
            /\ Len(x) < Len(y)
        \* x < y for two (line, comments) pairs
        ISLT(x, y) == IF PassEntry_eq(x[1], y[1]) THEN list_lt(x[2], y[2])
                      ELSE PassEntry_lt(x[1], y[1])
        \* list.sort, count_run: the length of the run the list begins with
        RECURSIVE count_run(_, _, _)
        count_run(xs, n, descending) ==
            IF n = Len(xs) \/ ISLT(xs[n + 1], xs[n]) # descending THEN n
            ELSE count_run(xs, n + 1, descending)
        RECURSIVE reverse(_)
        reverse(xs) == IF xs = <<>> THEN <<>> ELSE Append(reverse(Tail(xs)), Head(xs))
        \* list.sort, binarysort: where pivot goes in the sorted xs[l + 1 .. r]
        RECURSIVE bisect(_, _, _, _)
        bisect(xs, pivot, l, r) ==
            IF l >= r THEN l
            ELSE IF ISLT(pivot, xs[l + ((r - l) \div 2) + 1])
            THEN bisect(xs, pivot, l, l + ((r - l) \div 2))
            ELSE bisect(xs, pivot, l + ((r - l) \div 2) + 1, r)
        insert(xs, start, at) ==
            SubSeq(xs, 1, at) \o <<xs[start]>> \o SubSeq(xs, at + 1, start - 1)
            \o Drop(xs, start + 1)
        RECURSIVE binarysort(_, _)
        binarysort(xs, start) ==
            IF start > Len(xs) THEN xs
            ELSE binarysort(insert(xs, start, bisect(xs, xs[start], 0, start - 1)), start + 1)
        run(xs, n, descending) ==
            binarysort((IF descending THEN reverse(SubSeq(xs, 1, n)) ELSE SubSeq(xs, 1, n))
                       \o Drop(xs, n + 1), n + 1)
        sort(xs) ==
            IF Len(xs) < 2 THEN xs
            ELSE run(xs, count_run(xs, 2, ISLT(xs[2], xs[1])), ISLT(xs[2], xs[1]))
        RECURSIVE extend(_)
        extend(xs) == IF xs = <<>> THEN <<>> ELSE Head(xs)[2] \o <<Head(xs)[1]>> \o extend(Tail(xs))
        sorted(c) == IF c.entries = <<>> THEN c.comments ELSE extend(sort(c.entries))
    IN  sorted(collect(1, <<>>, <<>>))

\* PassEntry.matches(**attrs): attrs is the sequence of the keyword
\* arguments, each a name and a value
PassEntry_matches(entry, attrs) ==
    LET expected_attributes == DOMAIN entry \ {"k"}
        \* the attribute as a tagged value, like the values of attrs
        getattr(name) == IF name = "port" THEN entry.port ELSE StrV(entry[name])
    IN  IF \E i \in DOMAIN attrs : attrs[i].name \notin expected_attributes
        THEN [exc |-> "AttributeError", value |-> FALSE]
        ELSE [exc |-> "none",
              value |-> \A i \in DOMAIN attrs : getattr(attrs[i].name) = attrs[i].value]

\* PassFile.remove(**attrs), no filter given
PassFile_remove(lns, attrs) ==
    LET \* PassComment.matches
        PassComment_matches(comment) ==
            IF PassComment_entry(comment).exc = "ValueError"
            THEN [exc |-> "none", value |-> FALSE]
            ELSE PassEntry_matches(PassComment_entry(comment).entry, attrs)
        filter_(line) ==
            IF line.k = "comment" THEN PassComment_matches(line)
            ELSE PassEntry_matches(line, attrs)
        Keep(line) == ~filter_(line).value
    IN  IF attrs = <<>> THEN [exc |-> "ValueError", lines |-> lns]
        ELSE IF \E i \in DOMAIN lns : filter_(lns[i]).exc # "none"
        THEN [exc |-> "AttributeError", lines |-> lns]
        ELSE [exc |-> "none", lines |-> SelectSeq(lns, Keep)]

(***************************************************************************)
(* The inputs of the specifications.                                       *)
(***************************************************************************)
\* longest list of lines handed to parse()
MaxLines == 2

\* longest top-level file of the include specification
MaxTopLines == 2

\* number of mutating calls made on a parsed Configuration
MaxOps == 2

port == <<"p", "o", "r", "t">>

ssl == <<"s", "s", "l">>

\* the lines given to parse():
\*   port1 "port=1\n"         cport2 "# port=2\n"     port2 "port = 2\n"
\*   port3 "port = 3\n"       cport3 "#port = 3\n"    ssl "ssl = on\n"
\*   cssl "#ssl = off  # tls\n"  comment "# a comment\n"  bad "bad\n"
L ==
    [port1 |-> port \o <<"=", "1">> \o NL,
     \* a last line of a file that does not end with a newline
     port1_eof |-> port \o <<"=", "1">>,
     cport2 |-> <<"#", " ">> \o port \o <<"=", "2">> \o NL,
     port2 |-> port \o <<" ", "=", " ", "2">> \o NL,
     port3 |-> port \o <<" ", "=", " ", "3">> \o NL,
     cport3 |-> <<"#">> \o port \o <<" ", "=", " ", "3">> \o NL,
     ssl |-> ssl \o <<" ", "=", " ", "o", "n">> \o NL,
     cssl |-> <<"#">> \o ssl
              \o <<" ", "=", " ", "o", "f", "f", " ", " ", "#", " ", "t", "l", "s">> \o NL,
     comment |-> <<"#", " ", "a", " ", "c", "o", "m", "m", "e", "n", "t">> \o NL,
     bad |-> <<"b", "a", "d">> \o NL]

\* "<directive> '<target>'\n"
IncludeLine(directive, target) == directive \o <<" ", Q>> \o target \o <<Q>> \o NL

\* file and directory names: the directory /d holds t.conf, a.conf, b.conf
\* and the directory s, which holds x.conf, .h.conf and n.txt; no m.conf
\* exists
F ==
    [t |-> <<"t">> \o DotConf, a |-> <<"a">> \o DotConf, b |-> <<"b">> \o DotConf,
     x |-> <<"x">> \o DotConf, hidden |-> <<".", "h">> \o DotConf,
     txt |-> <<"n", ".", "t", "x", "t">>, m |-> <<"m">> \o DotConf,
     d |-> <<"d">>, s |-> <<"s">>]

NoFs == [dirs |-> {<<>>}, files |-> <<>>]

SeqsUpTo(S, n) == UNION {[1..m -> S] : m \in 0..n}

\* the values assigned through the mutation API: 2 and the unterminated "'x"
AssignValues == {IntV(2), StrV(<<Q, "x">>)}

\* the lines of the Configuration merged in with +=
OtherPool == {<<L.port3>>}

(***************************************************************************)
(* State.                                                                  *)
(***************************************************************************)
VARIABLES
    src,        \* the argument of parse(): an optional path and the lines read
    fs,         \* the file system
    pc,         \* "parse", "ready", "edit" (inside a with block), "failed", "coder"
    lines,      \* Configuration.lines
    entries,    \* Configuration.entries
    todo,       \* the lines parse() has still to read
    stack,      \* the calls of parse_include in progress
    processed,  \* _processed of the current top-level include directive
    err,        \* the exception that ended parse()
    proxy,      \* the EntriesProxy of the with block in progress
    nops,       \* number of mutating calls made so far
    last,       \* the last call made on the Configuration and what it raised
    call,       \* history: the last call of parse_include
    revisit,    \* history: some include directive designated a file being parsed
    live,       \* history: names assigned, uncommented, by the files included
    operands,   \* the operands of the merges made: their lines and entries, and the
                \* names whose Entry object they share with entries
    own,        \* history: the position in lines of each entry's own line, 0 if none
    snap,       \* history: lines and entries when the with block in progress began
    raw,        \* value coder: the token given to parse_value
    val,        \* value coder: parse_value(raw)
    text,       \* value coder: Entry(name, val).serialize()
    back        \* value coder: parse_value(text)

confVars == <<src, fs, pc, lines, entries, todo, stack, processed, err, proxy, nops, last,
              call, revisit, live, operands, own, snap>>

coderVars == <<raw, val, text, back>>

vars == <<confVars, coderVars>>

NoCall ==
    [seq |-> 0, type |-> <<>>, path |-> <<>>, from |-> <<>>, long |-> FALSE,
     exists |-> FALSE, isdir |-> FALSE, node |-> <<>>]

NoLast == [op |-> "none", key |-> <<>>, exc |-> "none"]

NoSnap == [lines |-> <<>>, entries |-> <<>>]

\* parse_all(lines): list(Configuration().parse(lines)), the includes not followed
RECURSIVE ParseAll(_, _)
ParseAll(res, lns) ==
    IF lns = <<>> \/ res.out.k = "raise" THEN res
    ELSE ParseAll(ParseLine(res.lines, res.entries, Head(lns)), Tail(lns))

InitConf(s, f) ==
    /\ src = s
    /\ fs = f
    /\ pc = "parse"
    /\ lines = <<>>
    /\ entries = <<>>
    /\ todo = s.lines
    /\ stack = <<>>
    /\ processed = {}
    /\ err = NoErr
    /\ proxy = <<>>
    /\ nops = 0
    /\ last = NoLast
    /\ call = NoCall
    /\ revisit = FALSE
    /\ operands = <<>>
    /\ live = {}
    /\ own = [n \in {} |-> 0]
    /\ snap = NoSnap
    /\ raw = <<>>
    /\ val = NoV
    /\ text = <<>>
    /\ back = NoV

\* parse(fo) with fo a list of lines
Init ==
    LET LinePool ==
            {L.port1, L.cport2, L.cport3, L.port2, L.cssl, L.comment, L.bad,
             IncludeLine(include, F.a)}
    IN  \E ls \in SeqsUpTo(LinePool \cup {L.port1_eof}, MaxLines) :
            \* only the last line of a file can lack its newline
            /\ \A i \in 1..(Len(ls) - 1) : ls[i] \in LinePool
            /\ InitConf([path |-> None, lines |-> ls], NoFs)

\* parse(fo) with fo the path of /d/t.conf
InitInclude ==
    LET TopPath == <<F.d, F.t>>
    IN  LET \* /d/{t,a,b}.conf and the directory /d/s with x.conf, .h.conf and n.txt
            MakeFs(top, a, b) ==
                [dirs |-> {<<>>, <<F.d>>, <<F.d, F.s>>},
                 files |-> (TopPath :> top) @@ (<<F.d, F.a>> :> a) @@ (<<F.d, F.b>> :> b)
                           @@ (<<F.d, F.s, F.x>> :> <<L.ssl>>)
                           @@ (<<F.d, F.s, F.hidden>> :> <<L.port3>>)
                           @@ (<<F.d, F.s, F.txt>> :> <<L.bad>>)]
            TopPool ==
                {IncludeLine(include, F.a), IncludeLine(include, F.b), IncludeLine(include_dir, F.s),
                 IncludeLine(include_if_exists, F.m), IncludeLine(include, F.m),
                 IncludeLine(include_dir, F.a),
                 IncludeLine(include, DotDot \o <<"/">> \o F.d \o <<"/">> \o F.t),
                 L.port1, L.cport2}
            APool ==
                {<<L.port1>>, <<L.cport2, L.ssl>>, <<IncludeLine(include, F.b)>>,
                 <<IncludeLine(include, F.a)>>, <<IncludeLine(include_dir, F.m)>>,
                 <<IncludeLine(include, F.b), IncludeLine(include, F.b)>>}
            BPool ==
                {<<L.cport2>>, <<IncludeLine(include, F.a)>>,
                 <<L.port3, IncludeLine(include_if_exists, <<"/">> \o F.d \o <<"/">> \o F.t)>>}
        IN  \E top \in SeqsUpTo(TopPool, MaxTopLines) \ {<<>>}, a \in APool, b \in BPool :
                InitConf([path |-> Some(TopPath), lines |-> top], MakeFs(top, a, b))

(***************************************************************************)
(* parse(fo): consume() reads the top-level lines and follows each include *)
(* directive with parse_include before reading on.                         *)
(***************************************************************************)
LineMatch(raw_line) ==
    LET \* the match of the grammar on a line, once '#' and blanks are taken off
        Uncommented(line) ==
            IF StartsWith(line, <<"#">>) THEN LStrip(LStripSet(line, {"#"})) ELSE line
    IN  parameter_re(Uncommented(Strip(raw_line)))

\* the name a line assigns
LineName(raw_line) == LineMatch(raw_line).name

CallOf(p, include_type, from_path) ==
    LET \* what the call parse_include(conf, p, include_type, from_path) is about: the
        \* path it designates, and what the operating system finds there
        CallAbout(path, include_type_, from_path_) ==
            [seq |-> call.seq + 1, type |-> include_type_, path |-> path, from |-> from_path_,
             long |-> Len(path) > MaxPathLen,
             exists |-> Len(path) <= MaxPathLen /\ Exists(fs, path),
             isdir |-> Len(path) <= MaxPathLen /\ IsDir(fs, path),
             node |-> IF Len(path) <= MaxPathLen /\ Exists(fs, path)
                      THEN Walk(fs, <<>>, path).node ELSE <<>>]
    IN  CallAbout(IncludePath(fs, p, from_path), include_type, from_path)

\* the effect of one call of parse_include made with the frames stk in progress
IncludeEffect(ir, c, stk) ==
    LET \* the files being parsed: the top-level one and those of the file frames
        ActiveNodes ==
            (IF src.path = None THEN {} ELSE {src.path[1]})
            \cup {Walk(fs, <<>>, stack[i].path).node : i \in {j \in 1..Len(stack) : stack[j].kind = "file"}}
    IN  /\ call' = c
        /\ revisit' = (revisit \/ (c.exists /\ c.type # include_dir /\ c.node \in ActiveNodes))
        /\ processed' = ir.processed
        /\ IF ir.k = "raise"
           THEN pc' = "failed" /\ err' = ir.err /\ stack' = stk
           ELSE /\ pc' = pc
                /\ err' = err
                /\ stack' = IF ir.k = "skip" THEN stk ELSE Append(stk, ir.frame)

\* consume(): what follows the iteration r of parse() on the top-level file
ConsumeStep(r) ==
    /\ lines' = r.lines
    /\ entries' = r.entries
    /\ todo' = Tail(todo)
    /\ own' = [n \in Keys(r.entries) |->
                 IF r.out.k = "entry" /\ n = LineName(Head(todo))
                 THEN Len(r.lines) ELSE own[n]]
    /\ IF r.out.k = "raise"
       THEN /\ pc' = "failed"
            /\ err' = Err(r.out.type, <<>>, <<>>)
            /\ UNCHANGED <<stack, processed, call, revisit>>
       ELSE IF r.out.k = "yield" /\ src.path = None
       THEN /\ pc' = "failed"
            /\ err' = Err("ValueError", <<>>, <<>>)
            /\ UNCHANGED <<stack, processed, call, revisit>>
       ELSE IF r.out.k = "yield"
       THEN IncludeEffect(
                parse_include(fs, {}, PathOf(r.out.path), r.out.type, src.path[1]),
                CallOf(PathOf(r.out.path), r.out.type, src.path[1]), <<>>)
       ELSE UNCHANGED <<pc, err, stack, processed, call, revisit>>

\* consume(): one line of the top-level file
ParseTop ==
    /\ pc = "parse"
    /\ stack = <<>>
    /\ todo # <<>>
    /\ ConsumeStep(ParseLine(lines, entries, Head(todo)))
    /\ UNCHANGED <<src, fs, proxy, nops, operands, last, live, snap, coderVars>>

\* parse() returns the Configuration
ParseDone ==
    /\ pc = "parse"
    /\ stack = <<>>
    /\ todo = <<>>
    /\ pc' = "ready"
    /\ UNCHANGED <<src, fs, lines, entries, todo, stack, processed, err, proxy, nops, last,
                   call, revisit, operands, live, own, snap, coderVars>>

Top == stack[Len(stack)]

\* the stack with its last frame replaced by f
WithTop(f) == [stack EXCEPT ![Len(stack)] = f]

\* parse_include, lines 186-193: what follows the iteration of parse() on the
\* sub-configuration, stk being the stack once the iteration is recorded
SubStep(out, stk) ==
    IF out.k = "raise"
    THEN /\ pc' = "failed"
         /\ err' = Err(out.type, <<>>, <<>>)
         /\ stack' = stk
         /\ UNCHANGED <<processed, call, revisit>>
    ELSE IF out.k = "yield"
    THEN IncludeEffect(
             parse_include(fs, processed, PathOf(out.path), out.type, Top.path),
             CallOf(PathOf(out.path), out.type, Top.path), stk)
    ELSE /\ stack' = stk
         /\ UNCHANGED <<pc, err, processed, call, revisit>>

\* the iteration r is recorded in the frame on top
SubIteration(r) ==
    SubStep(r.out,
            WithTop([Top EXCEPT !.lines = r.lines, !.entries = r.entries, !.rest = Tail(@)]))

\* parse_include, lines 186-193: one line of the sub-configuration on top
ParseSub ==
    /\ pc = "parse"
    /\ stack # <<>>
    /\ Top.kind = "file"
    /\ Top.rest # <<>>
    /\ SubIteration(ParseLine(Top.lines, Top.entries, Head(Top.rest)))
    /\ UNCHANGED <<src, fs, lines, entries, todo, proxy, nops, last, live, operands, own, snap,
                   coderVars>>

\* parse_include, line 194: the sub-configuration is read, its entries go to
\* the conf argument of the call (the enclosing sub-configuration or the top)
SubDone ==
    LET \* the names a file assigns on lines that are not commented
        LiveNames(content) ==
            {LineName(content[i]) :
                i \in {j \in 1..Len(content) :
                          /\ ~StartsWith(Strip(content[j]), <<"#">>)
                          /\ parameter_re(Strip(content[j])).ok
                          /\ LineName(content[j]) \notin IncludeType}}
    IN  /\ pc = "parse"
        /\ stack # <<>>
        /\ Top.kind = "file"
        /\ Top.rest = <<>>
        /\ live' = live \cup LiveNames(fs.files[Walk(fs, <<>>, Top.path).node])
        /\ IF \A i \in 1..(Len(stack) - 1) : stack[i].kind # "file"
           THEN /\ entries' = DictUpdate(entries, Top.entries)
                /\ own' = [n \in Keys(entries) \cup Keys(Top.entries) |->
                             IF n \in Keys(Top.entries) THEN 0 ELSE own[n]]
                /\ stack' = SubSeq(stack, 1, Len(stack) - 1)
           ELSE LET j == CHOOSE i \in 1..(Len(stack) - 1) :
                             /\ stack[i].kind = "file"
                             /\ \A o \in (i + 1)..(Len(stack) - 1) : stack[o].kind # "file"
                IN  /\ stack' = SubSeq([stack EXCEPT ![j].entries = DictUpdate(@, Top.entries)],
                                       1, Len(stack) - 1)
                    /\ UNCHANGED <<entries, own>>
        /\ UNCHANGED <<src, fs, pc, lines, todo, processed, err, proxy, nops, last, call,
                       revisit, operands,
                       snap, coderVars>>

\* parse_include, lines 160-168: the next file of an include_dir
DirNext ==
    /\ pc = "parse"
    /\ stack # <<>>
    /\ Top.kind = "dir"
    /\ Top.pending # <<>>
    /\ IncludeEffect(
           include_file(fs, processed, Head(Top.pending), Top.from),
           CallOf([abs |-> TRUE, parts |-> Head(Top.pending)], include, Top.from),
           WithTop([Top EXCEPT !.pending = Tail(@)]))
    /\ UNCHANGED <<src, fs, lines, entries, todo, proxy, nops, last, live, operands, own, snap,
                   coderVars>>

\* parse_include, lines 160-168: every file of the directory is included
DirDone ==
    /\ pc = "parse"
    /\ stack # <<>>
    /\ Top.kind = "dir"
    /\ Top.pending = <<>>
    /\ stack' = SubSeq(stack, 1, Len(stack) - 1)
    /\ UNCHANGED <<src, fs, pc, lines, entries, todo, processed, err, proxy, nops, last, call,
                   revisit, operands, live, own, snap, coderVars>>

(***************************************************************************)
(* Calls made on the Configuration parse() returned.                       *)
(***************************************************************************)
\* the Configuration after a call that gave r
Called(op, key, r) ==
    /\ lines' = r.lines
    /\ entries' = r.entries
    /\ last' = [op |-> op, key |-> key, exc |-> r.exc]

\* conf[key] = value
Assign(key, value) ==
    LET \* Configuration.__setitem__
        setitem(lns, ents, key_, value_) ==
            IF key_ \in IncludeType THEN Res(lns, ents, "ValueError")
            ELSE IF EntryValue(value_).k = "ValueError" THEN Res(lns, ents, "ValueError")
            ELSE IF key_ \in Keys(ents)
                 THEN update_entry(lns, ents, [Get(ents, key_) EXCEPT !.value = EntryValue(value_)])
                 ELSE add_entry(lns, ents, Entry(key_, EntryValue(value_), FALSE, None, <<>>))
    IN  /\ pc = "ready"
        /\ nops < MaxOps
        /\ Called("assign", key, setitem(lines, entries, key, value))
        /\ own' = [n \in Keys(entries') |->
                     IF n \in Keys(entries) THEN own[n] ELSE Len(lines')]
        \* e = self.entries[key] is the Entry object of every operand that
        \* shares it
        /\ operands' = [i \in DOMAIN operands |->
                           IF key \in operands[i].shared
                           THEN [operands[i] EXCEPT
                                    !.entries = DictSet(@, key, Get(entries', key))]
                           ELSE operands[i]]
        /\ nops' = nops + 1
        /\ UNCHANGED <<src, fs, pc, todo, stack, processed, err, proxy, call, revisit, live,
                       snap, coderVars>>

\* the operands once entries.update(o.entries) has run: o shares all its
\* Entry objects with entries, and the earlier operands no longer share the
\* names that o has
Operands(ops, o) ==
    [i \in DOMAIN ops |-> [ops[i] EXCEPT !.shared = @ \ Keys(o.entries)]]
        \o <<[lines |-> o.lines, entries |-> o.entries, shared |-> Keys(o.entries)]>>

\* conf += other, other being parsed from other_lines
Merge(other_lines) ==
    LET \* Configuration.__iadd__
        iadd(lns, ents, other_entries) == Res(<<>>, DictUpdate(ents, other_entries), "none")
    IN  /\ pc = "ready"
        /\ nops < MaxOps
        /\ \E o \in {ParseAll(ParseOut(<<>>, <<>>, OutNone), other_lines)} :
              /\ Called("merge", <<>>, iadd(lines, entries, o.entries))
              /\ operands' = Operands(operands, o)
        /\ own' = [n \in Keys(entries') |-> 0]
        /\ nops' = nops + 1
        /\ UNCHANGED <<src, fs, pc, todo, stack, processed, err, proxy, call, revisit, live,
                       snap, coderVars>>

\* conf = conf + other, other being parsed from other_lines: conf names the
\* sum from now on, and the Configuration it named is kept as an operand
Add(other_lines) ==
    LET \* Configuration.__add__
        add(ents, other_entries) ==
            Res(<<>>, DictUpdate(DictUpdate(<<>>, ents), other_entries), "none")
    IN  /\ pc = "ready"
        /\ nops < MaxOps
        /\ \E o \in {ParseAll(ParseOut(<<>>, <<>>, OutNone), other_lines)} :
              /\ Called("add", <<>>, add(entries, o.entries))
              /\ operands' = Operands(Append(operands, [lines |-> lines, entries |-> entries,
                                                        shared |-> Keys(entries)]),
                                      o)
        /\ own' = [n \in Keys(entries') |-> 0]
        /\ nops' = nops + 1
        /\ UNCHANGED <<src, fs, pc, todo, stack, processed, err, proxy, call, revisit, live,
                       snap, coderVars>>

\* with conf.edit() as entries: the proxy holds a copy of every entry
EditBegin ==
    /\ pc = "ready"
    /\ nops < MaxOps
    /\ pc' = "edit"
    /\ proxy' = entries
    /\ last' = [op |-> "edit", key |-> <<>>, exc |-> "none"]
    /\ snap' = [lines |-> lines, entries |-> entries]
    /\ UNCHANGED <<src, fs, lines, entries, todo, stack, processed, err, nops, call, revisit,
                   operands,
                   live, own, coderVars>>

\* the with block is left, by the end of its body or by an exception
EditLeave(raised, op) ==
    LET \* the own positions after the with block is left: a kept entry keeps its
        \* line, an added one gets the line appended for it, and every line above a
        \* removed line moves down by one
        OwnAfterEdit(ents2) ==
            LET removed == {own[d] : d \in Keys(entries) \ Keys(ents2)} \ {0}
                added == SelectSeq(proxy, LAMBDA e : e.name \notin Keys(entries))
                Before(q) == Cardinality({r \in removed : r < q})
                Pos(n) == IF n \in Keys(entries) THEN own[n]
                          ELSE Len(lines) + KeyIndex(added, n)
            IN  [n \in Keys(ents2) |-> IF Pos(n) = 0 THEN 0 ELSE Pos(n) - Before(Pos(n))]
    IN  /\ pc' = "ready"
        /\ Called(op, <<>>, edit_exit(lines, entries, proxy, raised))
        /\ own' = OwnAfterEdit(entries')
        \* an entry updated takes the copy held by the proxy, and an entry
        \* discarded is no longer in entries: neither is shared any more
        /\ operands' = [i \in DOMAIN operands |->
                           [operands[i] EXCEPT !.shared =
                               {n \in @ \cap Keys(entries') :
                                   Get(entries', n) = Get(entries, n)}]]
        /\ proxy' = proxy

\* one statement of the body of the with block, acting on the proxy; if it
\* raises, the exception leaves the with block
Body(pr) ==
    /\ pc = "edit"
    /\ nops < MaxOps
    /\ nops' = nops + 1
    /\ IF pr.exc = "none"
       THEN /\ proxy' = pr.proxy
            /\ UNCHANGED <<pc, lines, entries, own, operands, last>>
       ELSE EditLeave(TRUE, "edit_raise")
    /\ UNCHANGED <<src, fs, todo, stack, processed, err, call, revisit, live, snap, coderVars>>

\* the body raises an exception of its own
EditRaise ==
    /\ pc = "edit"
    /\ EditLeave(TRUE, "edit_raise")
    /\ UNCHANGED <<src, fs, todo, stack, processed, err, nops, call, revisit, live, snap,
                   coderVars>>

\* the body ends
EditCommit ==
    /\ pc = "edit"
    /\ EditLeave(FALSE, "edit_commit")
    /\ UNCHANGED <<src, fs, todo, stack, processed, err, nops, call, revisit, live, snap,
                   coderVars>>

(***************************************************************************)
(* The value coder on its own: a token is decoded, the value is given to   *)
(* an Entry, serialized, and decoded again.                                *)
(***************************************************************************)
InitCoder ==
    LET CoderAlphabet == {Q, BS, "0", "1", "6", " ", ".", "s", "m", "o", "n", "O", "k", "B"}
    IN  /\ src = [path |-> None, lines |-> <<>>]
        /\ fs = NoFs
        /\ pc = "coder"
        /\ lines = <<>>
        /\ entries = <<>>
        /\ todo = <<>>
        /\ stack = <<>>
        /\ processed = {}
        /\ err = NoErr
        /\ proxy = <<>>
        /\ nops = 0
        /\ last = NoLast
        /\ call = NoCall
        /\ revisit = FALSE
        /\ operands = <<>>
        /\ live = {}
        /\ own = [n \in {} |-> 0]
        /\ snap = NoSnap
        /\ raw \in SeqsUpTo(CoderAlphabet, MaxRawLen)
        /\ val = NoV
        /\ text = <<>>
        /\ back = NoV

\* val = parse_value(raw)
Decode ==
    /\ pc = "coder"
    /\ val = NoV
    /\ val' = parse_value(raw)
    /\ UNCHANGED <<confVars, raw, text, back>>

\* text = Entry(name, val).serialize(); back holds the ValueError of Entry()
Encode ==
    /\ pc = "coder"
    /\ val.k \notin {"none", "ValueError"}
    /\ text = <<>>
    /\ back = NoV
    /\ IF EntryValue(val).k = "ValueError"
       THEN back' = EntryValue(val) /\ text' = text
       ELSE text' = serialize(EntryValue(val)) /\ back' = back
    /\ UNCHANGED <<confVars, raw, val>>

\* back = parse_value(text)
Redecode ==
    /\ pc = "coder"
    /\ text # <<>>
    /\ back = NoV
    /\ back' = parse_value(text)
    /\ UNCHANGED <<confVars, raw, val, text>>

(***************************************************************************)
(* Objects written as text and read back: str(entry) handed to the parser  *)
(* of its file format.                                                     *)
(***************************************************************************)
\* val is the object, text its str() and back what the parser made of text
InitText ==
    LET \* the entries Entry(port, value, commented, comment) builds; the values and
        \* the comments include strings holding '#'
        EntryPool ==
            LET values == {IntV(2), BoolV(TRUE), TdV(60, 0), StrV(<<>>), StrV(<<"a">>),
                           StrV(<<"a", " ", "b">>), StrV(<<"a", "#", "b">>), StrV(<<"1", "k", "B">>)}
                comments == {None, Some(<<>>), Some(<<"c">>), Some(<<"a", " ", "#", " ", "b">>),
                             Some(<<"#", "c">>)}
            IN  {Entry(port, EntryValue(v), cd, c, <<>>) :
                     v \in values, cd \in BOOLEAN, c \in comments}
    IN  /\ src = [path |-> None, lines |-> <<>>]
        /\ fs = NoFs
        /\ pc = "text"
        /\ lines = <<>>
        /\ entries = <<>>
        /\ todo = <<>>
        /\ stack = <<>>
        /\ processed = {}
        /\ err = NoErr
        /\ proxy = <<>>
        /\ nops = 0
        /\ last = NoLast
        /\ call = NoCall
        /\ revisit = FALSE
        /\ operands = <<>>
        /\ live = {}
        /\ own = [n \in {} |-> 0]
        /\ snap = NoSnap
        /\ raw = <<>>
        /\ val \in EntryPool
        /\ text = <<>>
        /\ back = NoV

\* text = str(val)
Write ==
    /\ pc = "text"
    /\ text = <<>>
    /\ text' = EntryStr(val)
    /\ UNCHANGED <<confVars, raw, val, back>>

\* back = what Configuration().parse([text + "\n"]) leaves: the entries read
\* and what the line raised
Read ==
    /\ pc = "text"
    /\ text # <<>>
    /\ back = NoV
    /\ back' = ParseLine(<<>>, <<>>, text \o NL)
    /\ UNCHANGED <<confVars, raw, val, text>>

(***************************************************************************)
(* An HBA on its own: files are parsed into it, records are removed from   *)
(* it and other HBAs are merged into it.                                   *)
(***************************************************************************)
\* hba = HBA()
InitHBA ==
    /\ src = [path |-> None, lines |-> <<>>]
    /\ fs = NoFs
    /\ pc = "hba"
    /\ lines = <<>>
    /\ entries = <<>>
    /\ todo = <<>>
    /\ stack = <<>>
    /\ processed = {}
    /\ err = NoErr
    /\ proxy = <<>>
    /\ nops = 0
    /\ last = [op |-> "none", key |-> <<>>, exc |-> "none", ret |-> None, lineno |-> 0]
    /\ call = NoCall
    /\ revisit = FALSE
    /\ operands = <<>>
    /\ live = {}
    /\ own = [n \in {} |-> 0]
    /\ snap = NoSnap
    /\ raw = <<>>
    /\ val = NoV
    /\ text = <<>>
    /\ back = NoV

\* hba.parse(fo)
HBAParse ==
    LET local_a == <<"l", "o", "c", "a", "l", " ", "a", " ", "u">>
        host_a == <<"h", "o", "s", "t", " ", "a", " ", "u", " ", "1">>
        host_b == <<"h", "o", "s", "t", " ", "b", " ", "u", " ", "1">>
        t == <<" ", "t">>
        c == <<"#", " ", "c">>
        files ==
            {<<>>,
             <<local_a \o t \o NL>>,
             <<local_a \o NL>>,
             <<local_a \o t \o <<" ", "k", "=", "v">> \o NL>>,
             <<host_a \o t \o NL>>,
             <<host_a \o NL>>,
             <<host_a \o <<" ", "2">> \o t \o NL>>,
             <<host_a \o t \o <<" ">> \o c \o <<" ", "d">> \o NL>>,
             <<<<"h", "o", "s", "t", " ", "\"", "a", " ", "b", "\"", " ", "u", " ", "1">> \o t \o NL>>,
             <<<<"h", "o", "s", "t", " ", "a", ",", "b", " ", "u", " ", "1">> \o t \o NL>>,
             <<<<"n", "o", "p", "e", " ", "a", " ", "u">> \o t \o NL>>,
             <<host_a \o t \o NL, <<"n", "o", "p", "e", " ", "a", " ", "u">> \o t \o NL>>,
             <<host_a \o t \o NL, host_b \o t \o NL>>,
             <<host_a \o t \o NL, c \o NL, host_b \o t \o NL>>,
             <<c \o NL, host_a \o t \o NL, local_a \o t \o NL>>,
             <<local_a \o t \o NL, host_a \o t \o NL, host_a \o t \o NL>>}
    IN  /\ pc = "hba"
        /\ nops < MaxOps
        /\ \E fo \in files :
              /\ lines' = HBA_parse(lines, fo).lines
              /\ last' = [op |-> "parse", key |-> fo, exc |-> HBA_parse(lines, fo).exc,
                          ret |-> None, lineno |-> HBA_parse(lines, fo).lineno]
        /\ snap' = [lines |-> lines, entries |-> <<>>]
        /\ nops' = nops + 1
        /\ UNCHANGED <<src, fs, pc, entries, todo, stack, processed, err, proxy, call,
                       revisit, operands, live, own, coderVars>>

\* hba.remove(**attrs)
HBARemove ==
    LET attr(name, value) == [name |-> name, value |-> value]
        attrs_pool ==
            {<<>>,
             <<attr(Attr.database, <<"a">>)>>,
             <<attr(Attr.user, <<"u">>)>>,
             <<attr(Attr.address, <<"1">>)>>,
             <<attr(Attr.databases, <<"a">>)>>,
             <<attr(Attr.conntype, <<"h", "o", "s", "t">>), attr(Attr.database, <<"a">>)>>,
             <<attr(<<"f", "o", "o">>, <<"x">>)>>}
    IN  /\ pc = "hba"
        /\ nops < MaxOps
        /\ \E attrs \in attrs_pool :
              /\ lines' = HBA_remove(lines, attrs).lines
              /\ last' = [op |-> "remove", key |-> attrs, exc |-> HBA_remove(lines, attrs).exc,
                          ret |-> HBA_remove(lines, attrs).ret, lineno |-> 0]
        /\ snap' = [lines |-> lines, entries |-> <<>>]
        /\ nops' = nops + 1
        /\ UNCHANGED <<src, fs, pc, entries, todo, stack, processed, err, proxy, call,
                       revisit, operands, live, own, coderVars>>

\* hba.merge(other), other = parse(fo)
HBAMerge ==
    LET host_a == <<"h", "o", "s", "t", " ", "a", " ", "u", " ", "1", " ", "m", "\n">>
        host_b == <<"h", "o", "s", "t", " ", "b", " ", "u", " ", "1", " ", "m", "\n">>
        local_a == <<"l", "o", "c", "a", "l", " ", "a", " ", "u", " ", "m", "\n">>
        local_b == <<"l", "o", "c", "a", "l", " ", "b", " ", "u", " ", "m", "\n">>
        c == <<"#", " ", "c", "\n">>
        d == <<"#", " ", "d", "\n">>
        files ==
            {<<>>,
             <<host_a>>,
             <<d, local_b>>,
             <<local_a, host_b>>,
             <<c, host_a, host_b>>,
             <<host_a, c, host_b>>,
             <<c, host_a, d, host_b>>,
             <<c, host_a, local_b, host_b>>,
             <<host_a, d>>}
    IN  /\ pc = "hba"
        /\ nops < MaxOps
        /\ \E fo \in files :
              /\ lines' = HBA_merge(lines, HBA_parse(<<>>, fo).lines).lines
              /\ last' = [op |-> "merge", key |-> HBA_parse(<<>>, fo).lines,
                          exc |-> HBA_merge(lines, HBA_parse(<<>>, fo).lines).exc,
                          ret |-> HBA_merge(lines, HBA_parse(<<>>, fo).lines).ret, lineno |-> 0]
        /\ snap' = [lines |-> lines, entries |-> <<>>]
        /\ nops' = nops + 1
        /\ UNCHANGED <<src, fs, pc, entries, todo, stack, processed, err, proxy, call,
                       revisit, operands, live, own, coderVars>>

(***************************************************************************)
(* A PassFile on its own: files are parsed into it and it is sorted; and   *)
(* PassEntry objects on their own: written as text and read back, and      *)
(* compared.                                                               *)
(***************************************************************************)
\* passfile = PassFile()
InitPass ==
    /\ src = [path |-> None, lines |-> <<>>]
    /\ fs = NoFs
    /\ pc = "pass"
    /\ lines = <<>>
    /\ entries = <<>>
    /\ todo = <<>>
    /\ stack = <<>>
    /\ processed = {}
    /\ err = NoErr
    /\ proxy = <<>>
    /\ nops = 0
    /\ last = [op |-> "none", key |-> <<>>, exc |-> "none", ret |-> None, lineno |-> 0]
    /\ call = NoCall
    /\ revisit = FALSE
    /\ operands = <<>>
    /\ live = {}
    /\ own = [n \in {} |-> 0]
    /\ snap = NoSnap
    /\ raw = <<>>
    /\ val = NoV
    /\ text = <<>>
    /\ back = NoV

\* val = PassEntry(...); text = str(val); back = PassEntry.parse(text)
PassRoundTrip ==
    LET PassEntry(hostname, port_) ==
            [k |-> "entry", hostname |-> hostname, port |-> port_, database |-> <<"d">>,
             username |-> <<"u">>, password |-> <<"p", ":", BS>>]
        pool == {PassEntry(h, p) :
                    h \in {<<"h">>, <<"*">>, <<"h", ":", "x">>, <<"h", BS>>, <<"h", BS, ":">>,
                           <<":">>},
                    p \in {IntV(1), StrV(<<"*">>)}}
    IN  /\ pc = "pass"
        /\ nops < MaxOps
        /\ \E entry \in pool :
              /\ val' = entry
              /\ text' = PassEntry_str(entry)
              /\ back' = PassEntry_parse(PassEntry_str(entry))
              /\ last' = [op |-> "str", key |-> <<>>, exc |-> "none", ret |-> None,
                          lineno |-> 0]
        /\ nops' = nops + 1
        /\ UNCHANGED <<src, fs, pc, lines, entries, todo, stack, processed, err, proxy, call,
                       revisit, operands, live, own, snap, raw>>

\* val == other and hash(val), hash(other), a hash written as the tuple hashed
PassCompare ==
    LET PassEntry(hostname, port_, database, username, password) ==
            [k |-> "entry", hostname |-> hostname, port |-> port_, database |-> database,
             username |-> username, password |-> password]
        h == <<"h">>
        d == <<"d">>
        u == <<"u">>
        p == <<"p">>
        pool == {PassEntry(h, IntV(1), d, u, p), PassEntry(h, StrV(<<"1">>), d, u, <<"q">>),
                 PassEntry(h, IntV(1), d, u, <<"q">>), PassEntry(<<"g">>, IntV(1), d, u, p),
                 PassEntry(h, IntV(2), d, u, p), PassEntry(h, StrV(<<"*">>), d, u, p),
                 PassEntry(h, IntV(1), <<"*">>, u, p), PassEntry(h, IntV(1), d, <<"v">>, p)}
    IN  /\ pc = "pass"
        /\ nops < MaxOps
        /\ \E entry \in pool, other \in pool :
              /\ val' = entry
              /\ last' = [op |-> "eq", key |-> other, exc |-> "none",
                          ret |-> [eq |-> PassEntry_eq(entry, other),
                                   hash |-> <<SubSeq(as_tuple(entry), 1, 4),
                                              SubSeq(as_tuple(other), 1, 4)>>],
                          lineno |-> 0]
        /\ text' = <<>>
        /\ back' = NoV
        /\ nops' = nops + 1
        /\ UNCHANGED <<src, fs, pc, lines, entries, todo, stack, processed, err, proxy, call,
                       revisit, operands, live, own, snap, raw>>

\* passfile.parse(fo)
PassParse ==
    LET specific == <<"h", ":", "1", ":", "d", ":", "u", ":", "p", "\n">>
        other == <<"a", ":", "1", ":", "d", ":", "u", ":", "p", "\n">>
        anyport == <<"h", ":", "*", ":", "d", ":", "u", ":", "p", "\n">>
        wildcard == <<"*", ":", "*", ":", "*", ":", "*", ":", "p", "\n">>
        c == <<"#", " ", "c", "\n">>
        bad == <<"b", "a", "d", "\n">>
        files ==
            {<<>>, <<c>>, <<bad>>, <<specific, bad>>,
             <<wildcard, specific>>, <<specific, wildcard>>,
             <<wildcard, anyport, specific>>, <<anyport, other, specific>>,
             <<<<"#">> \o wildcard, specific>>, <<wildcard, <<"#">> \o specific>>,
             <<<<"#">> \o wildcard, <<"#">> \o specific>>,
             <<<<"#">> \o specific, <<"#">> \o wildcard>>,
             <<c, wildcard, specific>>, <<wildcard, c, specific>>, <<specific, c>>}
    IN  /\ pc = "pass"
        /\ nops < MaxOps
        /\ \E fo \in files :
              /\ lines' = PassFile_parse(lines, fo).lines
              /\ last' = [op |-> "parse", key |-> fo, exc |-> PassFile_parse(lines, fo).exc,
                          ret |-> None, lineno |-> PassFile_parse(lines, fo).lineno]
        /\ snap' = [lines |-> lines, entries |-> <<>>]
        /\ nops' = nops + 1
        /\ UNCHANGED <<src, fs, pc, entries, todo, stack, processed, err, proxy, call,
                       revisit, operands, live, own, coderVars>>

\* passfile.sort()
PassSort ==
    /\ pc = "pass"
    /\ nops < MaxOps
    /\ lines' = PassFile_sort(lines)
    /\ last' = [op |-> "sort", key |-> <<>>, exc |-> "none", ret |-> None, lineno |-> 0]
    /\ snap' = [lines |-> lines, entries |-> <<>>]
    /\ nops' = nops + 1
    /\ UNCHANGED <<src, fs, pc, entries, todo, stack, processed, err, proxy, call,
                   revisit, operands, live, own, coderVars>>

\* passfile.remove(**attrs)
PassRemove ==
    LET attr(name, value) == [name |-> name, value |-> value]
        attrs_pool ==
            {<<>>,
             <<attr("hostname", StrV(<<"h">>))>>,
             <<attr("port", IntV(1))>>,
             <<attr("port", StrV(<<"*">>))>>,
             <<attr("hostname", StrV(<<"h">>)), attr("port", IntV(1))>>,
             <<attr("database", StrV(<<"*">>))>>,
             <<attr("foo", StrV(<<"x">>))>>,
             <<attr("hostname", StrV(<<"h">>)), attr("foo", StrV(<<"x">>))>>}
    IN  /\ pc = "pass"
        /\ nops < MaxOps
        /\ \E attrs \in attrs_pool :
              /\ lines' = PassFile_remove(lines, attrs).lines
              /\ last' = [op |-> "remove", key |-> attrs,
                          exc |-> PassFile_remove(lines, attrs).exc,
                          ret |-> None, lineno |-> 0]
        /\ snap' = [lines |-> lines, entries |-> <<>>]
        /\ nops' = nops + 1
        /\ UNCHANGED <<src, fs, pc, entries, todo, stack, processed, err, proxy, call,
                       revisit, operands, live, own, coderVars>>

(***************************************************************************)
(* Specifications.                                                         *)
(***************************************************************************)
Parsing == ParseTop \/ ParseDone

Including == ParseSub \/ SubDone \/ DirNext \/ DirDone

Assigning ==
    LET AssignKeys == {port, ssl, include}
    IN  \E key \in AssignKeys, value \in AssignValues : Assign(key, value)

Editing ==
    \/ EditBegin
    \/ \E value \in AssignValues : Body(proxy_set_value(proxy, port, value))
    \/ Body(proxy_set_comment(proxy, ssl, None))
    \/ Body(proxy_set_commented(proxy, port, TRUE))
    \/ \E name \in {port, ssl} : Body(proxy_del(proxy, name))
    \/ \E name \in {port, include} : Body(proxy_add(proxy, name, IntV(2), FALSE, None))
    \/ EditRaise
    \/ EditCommit

Next ==
    \/ Parsing
    \/ Assigning
    \/ \E other_lines \in OtherPool : Merge(other_lines)
    \/ \E other_lines \in OtherPool : Add(other_lines)
    \/ Editing

Spec == Init /\ [][Next]_vars

NextInclude == Parsing \/ Including \/ Assigning

SpecInclude == InitInclude /\ [][NextInclude]_vars

NextCoder == Decode \/ Encode \/ Redecode

SpecCoder == InitCoder /\ [][NextCoder]_vars

NextText == Write \/ Read

SpecText == InitText /\ [][NextText]_vars

NextHBA == HBAParse \/ HBARemove \/ HBAMerge

SpecHBA == InitHBA /\ [][NextHBA]_vars

NextPass == PassRoundTrip \/ PassCompare \/ PassParse \/ PassSort \/ PassRemove

SpecPass == InitPass /\ [][NextPass]_vars

(***************************************************************************)
(* Properties.                                                             *)
(***************************************************************************)
\* the lines at the positions outside T, in order
RECURSIVE KeepFrom(_, _, _)
KeepFrom(lns, T, i) ==
    IF i > Len(lns) THEN <<>>
    ELSE (IF i \in T THEN <<>> ELSE <<lns[i]>>) \o KeepFrom(lns, T, i + 1)

\* the step added, changed or deleted the entry of name n
Touched(n) ==
    \/ n \notin Keys(entries)
    \/ n \notin Keys(entries')
    \/ Get(entries', n) # Get(entries, n)

\* the positions, before and after the step, of the lines of touched entries
TouchedBefore == {own[n] : n \in {m \in Keys(entries) : Touched(m)}}

TouchedAfter == {own'[n] : n \in {m \in Keys(entries') : Touched(m)}}

\* the step is a call of conf[key] = value
AssignStep == last'.op = "assign" /\ nops' = nops + 1

\* the step is the end of a with block whose body ended without exception
CommitStep == pc = "edit" /\ pc' = "ready" /\ last'.op = "edit_commit"

\* the step is parse() returning
ParsedStep == pc = "parse" /\ pc' = "ready"

\* C1: parse followed by save writes exactly the lines read, in order; and an
\* item assignment or an edit transaction that succeeds leaves every line that
\* is not the line of an added, changed or deleted entry unchanged and in its
\* place relative to the others.
C1_SavePreservesUntouchedLines ==
    [][/\ ParsedStep => save(lines') = save(src.lines)
       /\ ((AssignStep \/ CommitStep) /\ last'.exc = "none") =>
              KeepFrom(lines, TouchedBefore, 1) = KeepFrom(lines', TouchedAfter, 1)]_vars

\* C1, the part that holds: parse followed by save writes the lines read
C1_ParseThenSaveIsIdentity == [][ParsedStep => save(lines') = save(src.lines)]_vars

\* two equal lines assign port, the entry is the one of the second, and the
\* assignment rewrote the first
C1_RewroteAnotherLine ==
    /\ last.op = "assign"
    /\ last.exc = "none"
    /\ last.key = port
    /\ src.lines = <<L.port1, L.port1>>
    /\ lines = <<L.port2, L.port1>>
    /\ own[port] = 2

\* the line assigns name, on a commented line or not, as parse() reads it
Assigns(raw_line, name, commented) ==
    /\ StartsWith(Strip(raw_line), <<"#">>) = commented
    /\ commented => "=" \in {raw_line[i] : i \in 1..Len(raw_line)}
    /\ LineMatch(raw_line).ok
    /\ LineName(raw_line) = name

Occurrences(name, commented) ==
    {i \in 1..Len(lines) : Assigns(lines[i], name, commented)}

Latest(S) == CHOOSE i \in S : \A j \in S : j <= i

\* the entry of name is the one parse() makes of line i
ReadFrom(name, i, commented) ==
    /\ name \in Keys(entries)
    /\ Get(entries, name).commented = commented
    /\ Get(entries, name).raw_line = lines[i]
    /\ Get(entries, name).value = EntryValue(parse_value(LineMatch(lines[i]).value))

\* parse() is reading, or has read, the lines, and nothing else was called
OnlyParsed == pc \in {"parse", "ready"} /\ last.op = "none" /\ src.path = None

\* C2: of the lines parse() has read for a name, the last uncommented one
\* gives the entry; commented lines give the entry only when no uncommented
\* line assigns the name, and then the last of them does.
C2_LastUncommentedWins ==
    OnlyParsed =>
        \A name \in Keys(entries) \cup {LineName(lines[i]) : i \in 1..Len(lines)} :
            IF Occurrences(name, FALSE) # {}
            THEN ReadFrom(name, Latest(Occurrences(name, FALSE)), FALSE)
            ELSE IF Occurrences(name, TRUE) # {}
            THEN ReadFrom(name, Latest(Occurrences(name, TRUE)), TRUE)
            ELSE name \notin Keys(entries)

\* parse() has read an uncommented line for port and then a commented one
C2_CommentedAfterUncommented ==
    /\ OnlyParsed
    /\ pc = "ready"
    /\ Occurrences(port, FALSE) # {}
    /\ \E i \in Occurrences(port, TRUE) : i > Latest(Occurrences(port, FALSE))

\* C3: conf[key] = value for a key of entries uncomments the entry and
\* replaces the line at the entry's own position, every other line and the
\* number of lines being unchanged; for a new key it appends one entry and one
\* line.
C3_AssignReplacesOwnLine ==
    [][(AssignStep /\ last'.exc = "none") =>
          IF last'.key \in Keys(entries)
          THEN /\ ~Get(entries', last'.key).commented
               /\ Len(lines') = Len(lines)
               /\ own[last'.key] \in 1..Len(lines)
               /\ \A i \in 1..Len(lines) :
                     lines'[i] = IF i = own[last'.key]
                                 THEN Get(entries', last'.key).raw_line ELSE lines[i]
          ELSE /\ Len(entries') = Len(entries) + 1
               /\ SubSeq(entries', 1, Len(entries)) = entries
               /\ entries'[Len(entries')].name = last'.key
               /\ lines' = Append(lines, entries'[Len(entries')].raw_line)]_vars

\* the entry of port was read from the second of two equal lines and the
\* assignment replaced the first
C3_ReplacedFirstEqualLine ==
    /\ last.op = "assign"
    /\ last.exc = "none"
    /\ last.key = port
    /\ nops = 1
    /\ src.lines = <<L.port1, L.port1>>
    /\ own[port] = 2
    /\ lines[1] = Get(entries, port).raw_line
    /\ lines[2] = L.port1

\* C4: when the body of a with block raises, the exception propagates and
\* lines and entries are what they were when the block began.
C4_RaisingEditChangesNothing ==
    last.op = "edit_raise" =>
        /\ last.exc = "Exception"
        /\ lines = snap.lines
        /\ entries = snap.entries

\* the body changed the proxy and then raised
C4_RaisedAfterProxyChange ==
    /\ last.op = "edit_raise"
    /\ pc = "ready"
    /\ proxy # snap.entries
    /\ snap.entries # <<>>

\* C5: an item assignment that raises leaves lines and entries as they were
\* before the call.
C5_FailedAssignChangesNothing ==
    [][(AssignStep /\ last'.exc # "none") => (lines' = lines /\ entries' = entries)]_vars

\* C5, the part that holds: when the key is new, or the line of its entry is
\* in lines, a raising assignment changes nothing
C5_RejectedAssignChangesNothing ==
    [][(/\ AssignStep
        /\ last'.exc # "none"
        /\ \/ last'.key \notin Keys(entries)
           \/ ListIndex(lines, Get(entries, last'.key).raw_line) # 0)
          => (lines' = lines /\ entries' = entries)]_vars

\* after conf += other the assignment of port raised and yet stored its value
C5_FailedAssignStored ==
    /\ last.op = "assign"
    /\ last.exc = "ValueError"
    /\ last.key = port
    /\ lines = <<>>
    /\ port \in Keys(entries)
    /\ Get(entries, port).value = IntV(2)

\* C6: when an include directive designates a file that is being parsed,
\* parse() ends with the loop-detected RuntimeError.
C6_LoopRaisesRuntimeError ==
    (pc \in {"ready", "failed"} /\ revisit) => err.type = "RuntimeError"

\* an include directive reached the file being parsed and parse() ended
\* with another error than RuntimeError
C6_LoopEndedOtherwise ==
    /\ pc = "failed"
    /\ revisit
    /\ err.type = "OSError"

\* C7: once parse() has returned, every name an included file assigns on an
\* uncommented line is a key of as_dict(), and lines are the lines of the
\* top-level file.
C7_IncludedEntriesVisible ==
    (pc = "ready" /\ nops = 0) =>
        /\ live \subseteq DOMAIN as_dict(entries)
        /\ lines = src.lines

\* C7, the part that holds: lines are the lines of the top-level file
C7_TopLinesOnly == (pc \in {"parse", "ready"} /\ nops = 0) => lines \o todo = src.lines

\* an included file assigned port and as_dict() has no port
C7_IncludedEntryHidden ==
    /\ pc = "ready"
    /\ nops = 0
    /\ port \in live
    /\ port \notin DOMAIN as_dict(entries)

\* the step is a call of parse_include
IncludeCall == call'.seq = call.seq + 1

\* the call of parse_include of this step designates nothing that exists
Missing == ~call'.long /\ ~call'.exists

\* C8: a call of parse_include whose target is missing raises
\* FileNotFoundError with the path and the referencing file for include,
\* raises FileNotFoundError for include_dir, also when the target is no
\* directory, and for include_if_exists raises nothing and changes no entry.
C8_MissingTargets ==
    [][IncludeCall =>
          /\ (call'.type = include /\ Missing) =>
                 /\ pc' = "failed"
                 /\ err' = Err("FileNotFoundError", call'.path, call'.from)
          /\ (call'.type = include_dir /\ ~call'.long /\ (~call'.exists \/ ~call'.isdir)) =>
                 /\ pc' = "failed"
                 /\ err'.type = "FileNotFoundError"
          /\ (call'.type = include_if_exists /\ Missing) =>
                 /\ pc' = "parse"
                 /\ err' = NoErr
                 /\ entries' = entries
                 /\ Len(stack') = Len(stack)
                 /\ \A i \in 1..Len(stack) : stack'[i].entries = stack[i].entries]_vars

\* include_if_exists of a missing file was skipped, then include of a missing
\* file raised
C8_SkippedThenNotFound ==
    /\ pc = "failed"
    /\ err.type = "FileNotFoundError"
    /\ call.type = include
    /\ ~call.exists
    /\ call.seq = 2
    /\ Len(lines) = 2
    /\ lines[1] = IncludeLine(include_if_exists, F.m)

\* C9: no include directive name is a key of entries or of as_dict().
C9_NoIncludeKey ==
    /\ Keys(entries) \cap IncludeType = {}
    /\ DOMAIN as_dict(entries) \cap IncludeType = {}

\* an edit transaction stored an entry named include
C9_IncludeStored ==
    /\ last.op = "edit_commit"
    /\ last.exc = "none"
    /\ include \in Keys(entries)
    /\ include \in DOMAIN as_dict(entries)

\* C10: a value parse_value returned, given to an Entry and serialized, is
\* parsed back to an equal value.
C10_RoundTrip ==
    (val.k \notin {"none", "ValueError"} /\ back # NoV) =>
        /\ back.k # "ValueError"
        /\ PyEq(back, val)

\* the token of three quotes is parsed to the string of one quote, which
\* comes back as the empty string
C10_QuoteLost ==
    /\ raw = <<Q, Q, Q>>
    /\ val = StrV(<<Q>>)
    /\ text = <<Q, Q>>
    /\ back = StrV(<<>>)

\* C11: the line str(entry) of an Entry, parsed again by Configuration.parse,
\* gives an Entry equal to the original in name, value, comment and
\* commented flag.
C11_EntryRoundTrip ==
    (pc = "text" /\ "name" \in DOMAIN val /\ back # NoV) =>
        /\ back.out.k = "entry"
        /\ Len(back.entries) = 1
        /\ back.entries[1].name = val.name
        /\ PyEq(back.entries[1].value, val.value)
        /\ back.entries[1].comment = val.comment
        /\ back.entries[1].commented = val.commented

\* the string a#b is written as 'a#b', which is read as the unterminated
\* value 'a followed by a comment: the line raises ValueError
C11_HashInValueRejected ==
    /\ pc = "text"
    /\ val = Entry(port, StrV(<<"a", "#", "b">>), FALSE, None, <<>>)
    /\ text = port \o <<" ", "=", " ", Q, "a", "#", "b", Q>>
    /\ back # NoV
    /\ back.out = OutRaise("ValueError")
    /\ back.entries = <<>>

\* s.lower(), for the letters of the boolean words
Lower(s) ==
    [i \in 1..Len(s) |->
        CASE s[i] = "T" -> "t" [] s[i] = "R" -> "r" [] s[i] = "U" -> "u"
          [] s[i] = "E" -> "e" [] s[i] = "Y" -> "y" [] s[i] = "S" -> "s"
          [] s[i] = "O" -> "o" [] s[i] = "N" -> "n" [] s[i] = "F" -> "f"
          [] s[i] = "A" -> "a" [] s[i] = "L" -> "l" [] OTHER -> s[i]]

\* C12: parse_value decodes a token equal, ignoring letter case, to true,
\* yes or on to True, and one equal to false, no or off to False.
C12_BooleanIgnoringCase ==
    (pc = "coder" /\ val # NoV) =>
        /\ Lower(raw) \in {<<"t", "r", "u", "e">>, <<"y", "e", "s">>, <<"o", "n">>}
               => val = BoolV(TRUE)
        /\ Lower(raw) \in {<<"f", "a", "l", "s", "e">>, <<"n", "o">>, <<"o", "f", "f">>}
               => val = BoolV(FALSE)

\* the token On is decoded to the string "On"
C12_CapitalizedKeptAsString ==
    /\ pc = "coder"
    /\ raw = <<"O", "n">>
    /\ val = StrV(<<"O", "n">>)

\* C13: a configuration line that is neither blank, nor a comment, nor a
\* valid assignment ends the parse with a ParseError.
C13_BadLineRaisesParseError ==
    (pc = "failed" /\ src.path = None /\ lines # <<>> /\ lines[Len(lines)] = L.bad) =>
        err.type = "ParseError"

\* the second line read is "bad\n" and the parse ends with a ValueError
C13_BadLineRaisedValueError ==
    /\ pc = "failed"
    /\ src.lines = <<L.port1, L.bad>>
    /\ lines = <<L.port1, L.bad>>
    /\ err.type = "ValueError"

\* the length of the first word of s: it ends at the first blank that is not
\* between double quotes
RECURSIVE WordLen(_, _)
WordLen(s, quoted) ==
    IF s = <<>> \/ (~quoted /\ Head(s) \in Whitespace) THEN 0
    ELSE 1 + WordLen(Tail(s), IF Head(s) = "\"" THEN ~quoted ELSE quoted)

\* the words of a line
RECURSIVE Words(_)
Words(s) ==
    IF s = <<>> THEN <<>>
    ELSE IF Head(s) \in Whitespace THEN Words(Tail(s))
    ELSE <<SubSeq(s, 1, WordLen(s, FALSE))>> \o Words(Drop(s, WordLen(s, FALSE) + 1))

\* the number of words before the comment of a line that are not name=value
NonOptionTokens(s) ==
    LET words == Words(s)
        before == SubSeq(words, 1, LenBefore(words, <<"#">>))
    IN  Cardinality({i \in 1..Len(before) : "=" \notin {before[i][j] : j \in 1..Len(before[i])}})

\* the record read from a line satisfies all of the claim but the method field
FieldsButMethod(record, line) ==
    /\ Get(record.fields, Attr.conntype).value = <<"l", "o", "c", "a", "l">>
           => Keys(record.fields) \cap {Attr.address, Attr.netmask} = {}
    /\ Attr.netmask \in Keys(record.fields) <=> NonOptionTokens(line) >= 6
    /\ \A i \in 1..Len(COMMON_FIELDS) :
           COMMON_FIELDS[i] \notin Keys(record.fields)
               => HBARecord_getattr(record, COMMON_FIELDS[i]).exc = "AttributeError"

\* C14: every record HBARecord.parse returns has no address and no netmask
\* when its connection type is local, has a netmask exactly when its line has
\* six or more non-option tokens, has a method, and raises AttributeError for
\* a field it does not have.
C14_ParsedRecordFields ==
    (pc = "hba" /\ last.op = "parse") =>
        \A i \in (Len(snap.lines) + 1)..Len(lines) :
            lines[i].k = "record" =>
                /\ FieldsButMethod(lines[i], last.key[i - Len(snap.lines)])
                /\ Attr.method \in Keys(lines[i].fields)

\* C14: 'local a u' is read as a record of three fields, without a method
C14_RecordWithoutMethod ==
    /\ pc = "hba"
    /\ last.op = "parse"
    /\ last.exc = "none"
    /\ last.key = <<<<"l", "o", "c", "a", "l", " ", "a", " ", "u", "\n">>>>
    /\ snap.lines = <<>>
    /\ Len(lines) = 1
    /\ lines[1].k = "record"
    /\ Keys(lines[1].fields) = {Attr.conntype, Attr.databases, Attr.users}
    /\ FieldsButMethod(lines[1], last.key[1])

\* C15: HBA.remove(**attrs) removes exactly the records whose listed
\* attributes all equal the given values, a record lacking one of them not
\* matching, and keeps the other lines in order; without attributes it raises
\* ValueError and leaves the lines as they were.
C15_RemoveExactlyMatching ==
    (pc = "hba" /\ last.op = "remove") =>
        LET attrs == last.key
            Equal(record, a) ==
                /\ HBARecord_getattr(record, a.name).exc = "none"
                /\ a.name \notin {Attr.databases, Attr.users}
                /\ HBARecord_getattr(record, a.name).value = a.value
            Matching == {i \in 1..Len(snap.lines) :
                            /\ snap.lines[i].k = "record"
                            /\ \A j \in 1..Len(attrs) : Equal(snap.lines[i], attrs[j])}
        IN  /\ attrs = <<>> => last.exc = "ValueError" /\ lines = snap.lines
            /\ (/\ attrs # <<>>
                /\ \A j \in 1..Len(attrs) :
                       attrs[j].name \in {COMMON_FIELDS[i] : i \in 1..6}
                                         \cup {Attr.database, Attr.user})
                   => last.exc = "none" /\ lines = KeepFrom(snap.lines, Matching, 1)

\* C15: remove(address='1') on a comment, a host record of address 1 and a
\* local record removed the host record only
C15_RemovedHostKeptLocal ==
    /\ pc = "hba"
    /\ last.op = "remove"
    /\ last.exc = "none"
    /\ last.key = <<[name |-> Attr.address, value |-> <<"1">>]>>
    /\ Len(snap.lines) = 3
    /\ snap.lines[2].k = "record"
    /\ Attr.address \in Keys(snap.lines[2].fields)
    /\ Len(lines) = 2
    /\ lines[1] = snap.lines[1]
    /\ lines[1].k = "comment"
    /\ lines[2] = snap.lines[3]
    /\ lines[2].k = "record"
    /\ Attr.address \notin Keys(lines[2].fields)

\* C16: HBA.remove and HBA.merge return a truthy value exactly when the call
\* changed the lines of the HBA.
C16_ReturnTellsChange ==
    (pc = "hba" /\ last.op \in {"remove", "merge"} /\ last.exc = "none") =>
        ((last.ret # None /\ last.ret # Some(FALSE)) <=> lines # snap.lines)

\* C16: a remove that took a record away returned None
C16_RemovedReturnedNone ==
    /\ pc = "hba"
    /\ last.op = "remove"
    /\ last.exc = "none"
    /\ Len(lines) < Len(snap.lines)
    /\ last.ret = None

\* two records name the same connections: same conntype, database, user and
\* address, a missing address being equal to a missing one only
SameTarget(a, b) ==
    \A name \in {Attr.conntype, Attr.database, Attr.user, Attr.address} :
        HBARecord_getattr(a, name) = HBARecord_getattr(b, name)

\* the records of other, each with the comments directly before it
RECURSIVE Blocks(_, _)
Blocks(other, pending) ==
    IF other = <<>> THEN <<>>
    ELSE IF Head(other).k = "comment" THEN Blocks(Tail(other), Append(pending, Head(other)))
    ELSE <<[comments |-> pending, record |-> Head(other)]>> \o Blocks(Tail(other), <<>>)

\* the comments of other after its last record
RECURSIVE Trailing(_)
Trailing(other) ==
    IF other = <<>> \/ other[Len(other)].k = "record" THEN <<>>
    ELSE Append(Trailing(SubSeq(other, 1, Len(other) - 1)), other[Len(other)])

\* the lines of blocks, in order
RECURSIVE BlockLines(_)
BlockLines(blocks) ==
    IF blocks = <<>> THEN <<>>
    ELSE Head(blocks).comments \o <<Head(blocks).record>> \o BlockLines(Tail(blocks))

\* lns with each record replaced by the first block left that names the same
\* connections, the blocks that replaced nothing put at the end
RECURSIVE Merged(_, _)
Merged(lns, blocks) ==
    LET matching == {j \in 1..Len(blocks) :
                        Head(lns).k = "record" /\ SameTarget(Head(lns), blocks[j].record)}
        first == CHOOSE j \in matching : \A o \in matching : j <= o
    IN  IF lns = <<>> THEN BlockLines(blocks)
        ELSE IF matching = {} THEN <<Head(lns)>> \o Merged(Tail(lns), blocks)
        ELSE BlockLines(<<blocks[first]>>)
             \o Merged(Tail(lns), SubSeq(blocks, 1, first - 1) \o Drop(blocks, first + 1))

\* C17: hba.merge(other) replaces each record of hba matching a record of
\* other by that record, put at the matched record's position after the
\* comments directly before it in other, keeps the other lines of hba in
\* order and appends what of other matched nothing, also when several records
\* of hba are matched.
C17_MergeReplacesInPlace ==
    (pc = "hba" /\ last.op = "merge") =>
        /\ last.exc = "none"
        /\ lines = Merged(snap.lines, Blocks(last.key, <<>>)) \o Trailing(last.key)

\* C17: with two records of hba matched and a comment before the first in
\* other, the second replacement went to the wrong position and the merge
\* raised ValueError
C17_SecondMatchMisplaced ==
    /\ pc = "hba"
    /\ last.op = "merge"
    /\ last.exc = "ValueError"
    /\ Len(snap.lines) = 2
    /\ Len(last.key) = 3
    /\ last.key[1].k = "comment"
    /\ SameTarget(snap.lines[1], last.key[2])
    /\ SameTarget(snap.lines[2], last.key[3])
    /\ lines = <<last.key[1], last.key[1], last.key[3], snap.lines[2]>>

\* the positions of the ':' of s that follow an even number of backslashes
UnescapedColons(s) ==
    {j \in 1..Len(s) :
        /\ s[j] = ":"
        /\ \E n \in 0..(j - 1) :
              /\ n % 2 = 0
              /\ \A i \in (j - n)..(j - 1) : s[i] = BS
              /\ (j - n > 1 => s[j - n - 1] # BS)}

\* C18: escapedsplit ends a field at exactly the ':' that follow an even
\* number of backslashes, so that PassEntry.parse(str(e)) gives the five
\* fields of e back, also when they hold ':' or a backslash.
C18_EscapedSplitRoundTrip ==
    (pc = "pass" /\ last.op = "str") =>
        /\ Len(escapedsplit(text, ":")) = 1 + Cardinality(UnescapedColons(text))
        /\ back.exc = "none"
        /\ as_tuple(back.entry) = as_tuple(val)

\* C18: the text of an entry of hostname 'h:x' and password 'p:\' was cut
\* in two fields, at the escaped ':' of the password only, and rejected
C18_ColonInHostnameRejected ==
    /\ pc = "pass"
    /\ last.op = "str"
    /\ val.hostname = <<"h", ":", "x">>
    /\ val.port = IntV(1)
    /\ SubSeq(text, 1, 7) = <<"h", BS, ":", "x", ":", "1", ":">>
    /\ Cardinality(UnescapedColons(text)) = 4
    /\ Len(escapedsplit(text, ":")) = 2
    /\ back.exc = "ValueError"

\* C19: two PassEntry are equal exactly when they have the same hostname,
\* port, database and username, an int port being the port of the same
\* decimal text, whatever their passwords; equal entries have the same hash.
C19_EqualityIgnoresPassword ==
    (pc = "pass" /\ last.op = "eq") =>
        LET PortText(entry) ==
                IF entry.port.k = "int" THEN NatToStr(entry.port.v) ELSE entry.port.v
            Same(a, b) ==
                /\ a.hostname = b.hostname
                /\ PortText(a) = PortText(b)
                /\ a.database = b.database
                /\ a.username = b.username
        IN  /\ last.ret.eq <=> Same(val, last.key)
            /\ Same(val, last.key) => last.ret.hash[1] = last.ret.hash[2]

\* C19: an entry of port 1 was found equal to one of port '1' and of another
\* password, with the same hash
C19_EqualWithOtherPassword ==
    /\ pc = "pass"
    /\ last.op = "eq"
    /\ val.port = IntV(1)
    /\ last.key.port = StrV(<<"1">>)
    /\ val.password # last.key.password
    /\ last.ret.eq
    /\ last.ret.hash[1] = last.ret.hash[2]

\* the positions of lns holding an entry, commented or not
EntryLines(lns) ==
    {i \in 1..Len(lns) : lns[i].k = "entry" \/ PassComment_entry(lns[i]).exc = "none"}

\* the entry of such a line
EntryOf(line) == IF line.k = "entry" THEN line ELSE PassComment_entry(line).entry

\* C20: after PassFile.sort() the entries, commented or not, are in
\* non-decreasing order of sort key.
C20_SortedByKey ==
    (pc = "pass" /\ last.op = "sort") =>
        \A i, j \in EntryLines(lines) :
            i < j => ~PassEntry_lt(EntryOf(lines[j]), EntryOf(lines[i]))

\* C20: two commented entries, the wildcard one first, were left in that
\* order by sort()
C20_CommentedLeftUnsorted ==
    /\ pc = "pass"
    /\ last.op = "sort"
    /\ Len(lines) = 2
    /\ lines = snap.lines
    /\ lines[1].k = "comment"
    /\ lines[2].k = "comment"
    /\ EntryLines(lines) = {1, 2}
    /\ sort_key(EntryOf(lines[1]))[1] = 4
    /\ sort_key(EntryOf(lines[2]))[1] = 0

\* the pure comments directly before lns[i]
RECURSIVE BlockBefore(_, _)
BlockBefore(lns, i) ==
    IF i = 1 \/ (i - 1) \in EntryLines(lns) THEN <<>>
    ELSE Append(BlockBefore(lns, i - 1), lns[i - 1])

\* how many entries of lns, commented or not, are line with block directly
\* before them
Attached(lns, line, block) ==
    Cardinality({i \in EntryLines(lns) : lns[i] = line /\ BlockBefore(lns, i) = block})

\* C21: PassFile.sort() keeps each block of pure comments directly before
\* the entry or commented entry it preceded, the comments in the same order.
C21_CommentsStayAttached ==
    (pc = "pass" /\ last.op = "sort") =>
        \A i \in EntryLines(snap.lines) :
            Attached(lines, snap.lines[i], BlockBefore(snap.lines, i))
                = Attached(snap.lines, snap.lines[i], BlockBefore(snap.lines, i))

\* C21: the specific entry moved before the wildcard one and took the
\* comment above it along
C21_CommentMovedWithEntry ==
    /\ pc = "pass"
    /\ last.op = "sort"
    /\ Len(snap.lines) = 3
    /\ snap.lines[1].k = "entry"
    /\ snap.lines[2].k = "comment"
    /\ EntryLines(snap.lines) = {1, 3}
    /\ lines = <<snap.lines[2], snap.lines[3], snap.lines[1]>>

\* the names of the fields of a PassEntry
PassEntryFields == {"hostname", "port", "database", "username", "password"}

\* line is an entry or a commented entry whose attributes named in attrs
\* have the values given there
Selected(line, attrs) ==
    /\ line.k = "entry" \/ PassComment_entry(line).exc = "none"
    /\ \A i \in DOMAIN attrs :
          LET field == EntryOf(line)[attrs[i].name]
          IN  attrs[i].value = IF attrs[i].name = "port" THEN field ELSE StrV(field)

RECURSIVE Unselected(_, _)
Unselected(lns, attrs) ==
    IF lns = <<>> THEN <<>>
    ELSE (IF Selected(Head(lns), attrs) THEN <<>> ELSE <<Head(lns)>>)
             \o Unselected(Tail(lns), attrs)

\* C22: PassFile.remove(**attrs) raises ValueError and keeps the lines when
\* no attribute is given, raises AttributeError for a name that is not a
\* PassEntry field, and otherwise removes exactly the entries and commented
\* entries whose listed attributes equal the given values, keeping the
\* other lines in order.
C22_RemoveContract ==
    (pc = "pass" /\ last.op = "remove") =>
        IF last.key = <<>> THEN last.exc = "ValueError" /\ lines = snap.lines
        ELSE IF \E i \in DOMAIN last.key : last.key[i].name \notin PassEntryFields
        THEN last.exc = "AttributeError"
        ELSE last.exc = "none" /\ lines = Unselected(snap.lines, last.key)

\* C22: remove(foo='x') returned without an exception on a file that holds
\* a pure comment and no entry
C22_UnknownAttributeAccepted ==
    /\ pc = "pass"
    /\ last.op = "remove"
    /\ \E i \in DOMAIN last.key : last.key[i].name = "foo"
    /\ last.exc = "none"
    /\ snap.lines # <<>>
    /\ lines = snap.lines

\* the entries the with block deleted from the proxy, left as they were, and
\* added, snap holding the lines and entries at the start of the block
Deleted == Keys(snap.entries) \ Keys(proxy)

Untouched == {n \in Keys(snap.entries) \cap Keys(proxy) : Get(proxy, n) = Get(snap.entries, n)}

Added == SelectSeq(proxy, LAMBDA e : e.name \notin Keys(snap.entries))

CountLine(lns, x) == Cardinality({i \in DOMAIN lns : lns[i] = x})

\* the edit block ended without an exception of its body
Committed == pc = "ready" /\ last.op = "edit_commit"

\* the reconciliation of C23, given that it ran to its end
EditFrame ==
    /\ \A n \in Deleted :
          /\ n \notin Keys(entries)
          /\ CountLine(lines, Get(snap.entries, n).raw_line)
                = CountLine(snap.lines, Get(snap.entries, n).raw_line) - 1
    /\ Len(lines) = Len(snap.lines) - Cardinality(Deleted) + Len(Added)
    /\ \A n \in Untouched :
          /\ Get(entries, n) = Get(snap.entries, n)
          /\ CountLine(lines, Get(snap.entries, n).raw_line)
                = CountLine(snap.lines, Get(snap.entries, n).raw_line)
    /\ \A k \in 1..Len(Added) :
          lines[Len(lines) - Len(Added) + k] = EntryStr(Added[k]) \o NL

\* C23: when the body of a Configuration.edit() block ends without an
\* exception, the block is left without one, every entry deleted from the
\* proxy is gone from entries with exactly one line equal to its raw_line,
\* every untouched entry keeps its line, and the added entries are the last
\* lines, in the order they were added.
C23_EditCommitFrame == Committed => (last.exc = "none" /\ EditFrame)

\* C23: an entry that came from conf += other was deleted in the block and
\* leaving the block raised ValueError
C23_DeleteRaisedValueError ==
    /\ Committed
    /\ last.exc = "ValueError"
    /\ Deleted # {}
    /\ \A n \in Deleted : CountLine(snap.lines, Get(snap.entries, n).raw_line) = 0

\* C24: in every state of a Configuration, each entry of entries has its
\* raw_line among lines.
C24_EveryEntryHasItsLine ==
    \A i \in DOMAIN entries : CountLine(lines, entries[i].raw_line) >= 1

\* C24: after conf += other the entry taken from other has no line in lines
C24_MergedEntryWithoutLine ==
    /\ pc = "ready"
    /\ last.op = "merge"
    /\ lines = <<>>
    /\ \E i \in DOMAIN entries : entries[i].raw_line = L.port3

\* the lines read back from a saved text, each with its newline
RECURSIVE SplitLines(_)
SplitLines(t) ==
    IF t = <<>> THEN <<>>
    ELSE IF ListIndex(t, "\n") = 0 THEN <<t>>
    ELSE <<SubSeq(t, 1, ListIndex(t, "\n"))>>
             \o SplitLines(SubSeq(t, ListIndex(t, "\n") + 1, Len(t)))

\* the Configuration parsed from what save() wrote
Reloaded == ParseAll(ParseOut(<<>>, <<>>, OutNone), SplitLines(save(lines)))

\* C25: after conf[name] = v on a Configuration parsed from lines, the saved
\* lines parsed again give v for name and the same values for the other
\* uncommented entries.
C25_AssignSurvivesReload ==
    (pc = "ready" /\ nops = 1 /\ last.op = "assign" /\ last.exc = "none") =>
        /\ Reloaded.out.k # "raise"
        /\ DOMAIN as_dict(Reloaded.entries) = DOMAIN as_dict(entries)
        /\ \A n \in DOMAIN as_dict(entries) :
              as_dict(Reloaded.entries)[n] = as_dict(entries)[n]

\* C25: the line of the new entry was appended to a last line without
\* newline, and the reloaded Configuration does not have the entry
C25_AppendedToUnterminatedLine ==
    /\ pc = "ready"
    /\ nops = 1
    /\ last.op = "assign"
    /\ last.exc = "none"
    /\ src.lines = <<L.port1_eof>>
    /\ last.key = ssl
    /\ Len(lines) = 2
    /\ Reloaded.out.k # "raise"
    /\ ssl \notin DOMAIN as_dict(Reloaded.entries)
    /\ as_dict(Reloaded.entries)[port] # as_dict(entries)[port]

\* C26: PassFile.sort() only reorders: every line is in the lines after the
\* sort as many times as it was before it.
C26_SortIsPermutation ==
    (pc = "pass" /\ last.op = "sort") =>
        /\ Len(lines) = Len(snap.lines)
        /\ \A i \in DOMAIN snap.lines :
              CountLine(lines, snap.lines[i]) = CountLine(snap.lines, snap.lines[i])

\* C26: the comment after the last entry is gone after the sort
C26_TrailingCommentLost ==
    /\ pc = "pass"
    /\ last.op = "sort"
    /\ Len(snap.lines) = 2
    /\ snap.lines[1].k = "entry"
    /\ snap.lines[2].k = "comment"
    /\ 2 \notin EntryLines(snap.lines)
    /\ lines = <<snap.lines[1]>>

\* C27: a PassFile.parse() that raises leaves the lines of the PassFile as
\* they were before the call.
C27_FailedParseKeepsNothing ==
    (pc = "pass" /\ last.op = "parse" /\ last.exc # "none") => lines = snap.lines

\* C27: parse raised ParseError on its second line and the entry read from
\* the first line stayed in lines
C27_LinesBeforeBadLineKept ==
    /\ pc = "pass"
    /\ last.op = "parse"
    /\ last.exc = "ParseError"
    /\ last.lineno = 2
    /\ Len(lines) = Len(snap.lines) + 1
    /\ lines[Len(lines)].k = "entry"

\* what a Configuration shows of its entries: name, value, comment and
\* commented flag
Shown(ents) ==
    [i \in DOMAIN ents |-> [name |-> ents[i].name, value |-> ents[i].value,
                            comment |-> ents[i].comment, commented |-> ents[i].commented]]

\* s = conf + other was evaluated
AddStep == last'.op = "add" /\ nops' = nops + 1

\* C28: an item assignment on the result of a merge changes no value, comment
\* or commented flag in the operands of the merge, and conf + other leaves
\* the entries and lines of conf and of other as they were.
C28_MergeDoesNotCouple ==
    [][/\ AssignStep =>
            \A i \in DOMAIN operands : Shown(operands'[i].entries) = Shown(operands[i].entries)
       /\ AddStep =>
            /\ Len(operands') = Len(operands) + 2
            /\ operands'[Len(operands) + 1].lines = lines
            /\ operands'[Len(operands) + 1].entries = entries
            /\ \E other_lines \in OtherPool :
                  /\ operands'[Len(operands) + 2].lines = other_lines
                  /\ operands'[Len(operands) + 2].entries
                        = ParseAll(ParseOut(<<>>, <<>>, OutNone), other_lines).entries]_vars

\* C28: after conf += other, other parsed from 'port = 3', the assignment
\* conf['port'] = 2 raised ValueError and other['port'] is 2
C28_AssignmentChangedOther ==
    /\ pc = "ready"
    /\ last.op = "assign"
    /\ last.key = port
    /\ last.exc = "ValueError"
    /\ Len(operands) = 1
    /\ operands[1].lines = <<L.port3>>
    /\ Get(operands[1].entries, port).value = IntV(2)
    /\ Get(entries, port).value = IntV(2)

\* C29: parse() ends with the loop-detected RuntimeError only when an include
\* directive designated a file that was being parsed.
C29_RuntimeErrorOnlyForCycles ==
    (pc = "failed" /\ err.type = "RuntimeError") => revisit

\* C29: a.conf includes b.conf twice, b.conf includes nothing, and parse()
\* ended with the loop-detected RuntimeError
C29_IncludedTwiceRaised ==
    /\ pc = "failed"
    /\ err.type = "RuntimeError"
    /\ ~revisit
    /\ fs.files[<<F.d, F.a>>] = <<IncludeLine(include, F.b), IncludeLine(include, F.b)>>
    /\ fs.files[<<F.d, F.b>>] = <<L.cport2>>

\* the entries of the lines of the top-level file alone
TopEntries == ParseAll(ParseOut(<<>>, <<>>, OutNone), src.lines).entries

\* C30: once parse() has returned, a name the top-level file assigns on an
\* uncommented line is a key of as_dict(), with the value given there unless
\* an included file assigns the name on an uncommented line.
C30_CommentedIncludeKeepsEntry ==
    (pc = "ready" /\ nops = 0) =>
        \A n \in DOMAIN as_dict(TopEntries) :
            /\ n \in DOMAIN as_dict(entries)
            /\ n \notin live => as_dict(entries)[n] = as_dict(TopEntries)[n]

\* C30: the top-level file sets port=1 and then includes a file holding
\* '# port=2'; port is not in as_dict()
C30_CommentedIncludeReplaced ==
    /\ pc = "ready"
    /\ nops = 0
    /\ src.lines = <<L.port1, IncludeLine(include, F.a)>>
    /\ fs.files[<<F.d, F.a>>] = <<L.cport2, L.ssl>>
    /\ Get(entries, port).commented
    /\ port \notin DOMAIN as_dict(entries)

====
